---- MODULE Spec2Model ----
(***************************************************************************)
(* Model of the pipeline execution engine (backend/core/execution_engine.py) *)
(* of the node-based automation runtime.  One top-level execute_pipeline    *)
(* call is modelled at the granularity of asyncio scheduling: a coroutine   *)
(* runs until it suspends (event publish with subscribers, asyncio.sleep,   *)
(* device I/O), then any other ready task may run.  Further sections model  *)
(* concurrent calls on one engine, a while-loop node, the composite save    *)
(* use cases and the event bus, each with its own specification.            *)
(***************************************************************************)
EXTENDS Integers, Sequences, FiniteSets, TLC

\* ------------------------------------------------------------------ bounds
MaxEdges == 2
MaxCount == 2

\* ------------------------------------------------------- program constants
MAX_COMPOSITE_DEPTH == 5
max_iterations == 1000

\* --------------------------------------------------------------- dict tools
EmptyMap == [k \in {} |-> "none"]

Has(d, k) == k \in DOMAIN d

Put(d, k, v) == (k :> v) @@ d

Update(d, e) == e @@ d

Range(s) == {s[i] : i \in DOMAIN s}

\* numbers travel on edges as strings; int() and str() are tables
NumStr == <<"1", "2", "3", "4", "5", "6">>

Str(i) ==
    IF i = 0 THEN "0" ELSE IF i = -1 THEN "-1"
    ELSE IF i \in DOMAIN NumStr THEN NumStr[i] ELSE "big"

IsNum(v) == v \in {"0", "-1"} \/ v \in Range(NumStr)

ToInt(v) ==
    IF v = "0" THEN 0 ELSE IF v = "-1" THEN -1
    ELSE CHOOSE i \in DOMAIN NumStr : NumStr[i] = v

\* ------------------------------------------------------ pipeline definitions
TopIds == <<"A", "B", "C">>

NoNode ==
    [id |-> "", type |-> "missing", plugin_id |-> "", device_instance |-> "",
     function_id |-> "", composite_id |-> "", config |-> EmptyMap]

FunctionNode(id, plugin, inst, fn, cfg) ==
    [id |-> id, type |-> "function", plugin_id |-> plugin, device_instance |-> inst,
     function_id |-> fn, composite_id |-> "", config |-> cfg]

CompositeNode(id, cid) ==
    [id |-> id, type |-> "composite", plugin_id |-> "", device_instance |-> "",
     function_id |-> "", composite_id |-> cid, config |-> EmptyMap]

ForLoopNode(id, cfg) ==
    [id |-> id, type |-> "for_loop", plugin_id |-> "", device_instance |-> "",
     function_id |-> "", composite_id |-> "", config |-> cfg]

Edge(s, sh, t, th) ==
    [source |-> s, source_handle |-> sh, target |-> t, target_handle |-> th]

\* the device registry the engine runs against: servo_1 is connected,
\* servo_off is registered but was never connected
ConnectedInstances == {"servo_1"}

RegisteredInstances == {"servo_1", "servo_off"}

\* a chain of stored composites D1 .. D6, each holding a print node and a
\* composite node for the next one: N6 sits inside MAX_COMPOSITE_DEPTH
\* enclosing composite nodes
DeepLen == MAX_COMPOSITE_DEPTH + 1

DeepId(k) == "D" \o Str(k)

DeepRepo ==
    [cid \in {DeepId(k) : k \in 1..DeepLen} |->
        LET k    == CHOOSE j \in 1..DeepLen : DeepId(j) = cid
            leaf == FunctionNode("L" \o Str(k), "logic", "", "print", EmptyMap)
        IN  [nodes   |-> IF k < DeepLen
                         THEN <<leaf, CompositeNode("N" \o Str(k + 1), DeepId(k + 1))>>
                         ELSE <<leaf>>,
             edges   |-> <<>>,
             inputs  |-> <<>>,
             outputs |-> <<>>]]

\* the composite store the engine reads from (composite_id -> definition)
\* CX: X (delay) feeds Y (set_variable); CC: a subgraph with a cycle;
\* CS: holds a composite node of itself; CA and CB: hold one of each other
CompositeRepo ==
    DeepRepo
    @@
    "CS" :> [nodes   |-> <<FunctionNode("L", "logic", "", "print", EmptyMap),
                           CompositeNode("S", "CS")>>,
             edges   |-> <<>>,
             inputs  |-> <<>>,
             outputs |-> <<>>]
    @@
    "CA" :> [nodes   |-> <<CompositeNode("SB", "CB")>>,
             edges   |-> <<>>,
             inputs  |-> <<>>,
             outputs |-> <<>>]
    @@
    "CB" :> [nodes   |-> <<CompositeNode("SA", "CA")>>,
             edges   |-> <<>>,
             inputs  |-> <<>>,
             outputs |-> <<>>]
    @@
    "CX" :> [nodes   |-> <<FunctionNode("X", "logic", "", "delay", EmptyMap),
                           FunctionNode("Y", "logic", "", "set_variable", EmptyMap)>>,
             edges   |-> <<Edge("X", "complete", "Y", "value")>>,
             inputs  |-> <<[name |-> "value", maps_to |-> <<"X", "trigger">>]>>,
             outputs |-> <<[name |-> "done", maps_from |-> <<"Y", "value">>]>>]
    @@
    "CC" :> [nodes   |-> <<FunctionNode("X", "logic", "", "print", EmptyMap),
                           FunctionNode("Y", "logic", "", "print", EmptyMap)>>,
             edges   |-> <<Edge("X", "complete", "Y", "trigger"), Edge("Y", "complete", "X", "trigger")>>,
             inputs  |-> <<>>,
             outputs |-> <<[name |-> "done", maps_from |-> <<"Y", "complete">>]>>]

\* _find_node: first node of the list with that id, or None
FindNode(node_id, p) ==
    LET hits == {i \in DOMAIN p.nodes : p.nodes[i].id = node_id}
    IN  IF hits = {} THEN NoNode
        ELSE p.nodes[CHOOSE i \in hits : \A j \in hits : i <= j]

\* ------------------------------------------------------------ graph analysis
RECURSIVE AddEdgeNodes(_, _)
AddEdgeNodes(ns, es) ==
    IF es = <<>> THEN ns
    ELSE LET e  == Head(es)
             n1 == IF e.source \in Range(ns) THEN ns ELSE Append(ns, e.source)
             n2 == IF e.target \in Range(n1) THEN n1 ELSE Append(n1, e.target)
         IN  AddEdgeNodes(n2, Tail(es))

\* _build_execution_graph: vertices in insertion order, arcs source -> target
BuildExecutionGraph(p) ==
    [nodes |-> AddEdgeNodes([i \in DOMAIN p.nodes |-> p.nodes[i].id], p.edges),
     arcs  |-> {<<p.edges[i].source, p.edges[i].target>> : i \in DOMAIN p.edges}]

Predecessors(g, n) == {a[1] : a \in {b \in g.arcs : b[2] = n}}

Successors(g, n) == {a[2] : a \in {b \in g.arcs : b[1] = n}}

Filter(s, keep) == SelectSeq(s, LAMBDA x : x \in keep)

\* nx.topological_sort: generations of in-degree-zero vertices, each
\* generation in insertion order; stops short when a cycle blocks it
RECURSIVE TopoFrom(_, _, _)
TopoFrom(g, done, acc) ==
    LET rest == {n \in Range(g.nodes) : n \notin done}
        gen  == {n \in rest : Predecessors(g, n) \subseteq done}
    IN  IF gen = {} THEN acc
        ELSE TopoFrom(g, done \cup gen, acc \o Filter(g.nodes, gen))

TopologicalSort(g) == TopoFrom(g, {}, <<>>)

\* (variant: the cycle check is skipped)
IsDirectedAcyclicGraph_Unchecked(g) == Len(g.nodes) >= 0

\* (variant: only a self-loop counts as a cycle)
IsDirectedAcyclicGraph_SelfLoopsOnly(g) == \A n \in Range(g.nodes) : <<n, n>> \notin g.arcs

\* nx.is_directed_acyclic_graph: the sort consumes every vertex
IsDirectedAcyclicGraph(g) == Len(TopologicalSort(g)) = Len(g.nodes)


\* (variant: waits for the successors instead of the predecessors)
RECURSIVE GroupFrom_Successors(_, _, _, _)
GroupFrom_Successors(g, remaining, executed, levels) ==
    IF remaining = {} THEN levels
    ELSE LET ready == {n \in remaining : \A succ \in Successors(g, n) : succ \in executed}
             current_level == IF ready = {} THEN {CHOOSE n \in remaining : TRUE} ELSE ready
         IN  GroupFrom_Successors(g, remaining \ current_level, executed \cup current_level,
                                  Append(levels, current_level))

\* (variant: one ready vertex per level)
RECURSIVE GroupFrom_OneByOne(_, _, _, _)
GroupFrom_OneByOne(g, remaining, executed, levels) ==
    IF remaining = {} THEN levels
    ELSE LET ready == {n \in remaining : \A pred \in Predecessors(g, n) : pred \in executed}
             current_level == {CHOOSE n \in (IF ready = {} THEN remaining ELSE ready) : TRUE}
         IN  GroupFrom_OneByOne(g, remaining \ current_level, executed \cup current_level,
                                Append(levels, current_level))

\* _group_by_execution_level: repeatedly take the remaining vertices whose
\* predecessors are all executed (the members of one level are listed in
\* set-iteration order, which execute_pipeline fixes when it starts)
RECURSIVE GroupFrom(_, _, _, _)
GroupFrom(g, remaining, executed, levels) ==
    IF remaining = {} THEN levels
    ELSE LET ready == {n \in remaining : \A pred \in Predecessors(g, n) : pred \in executed}
             current_level == IF ready = {} THEN {CHOOSE n \in remaining : TRUE} ELSE ready
         IN  GroupFrom(g, remaining \ current_level, executed \cup current_level,
                       Append(levels, current_level))

GroupByExecutionLevel(g, execution_order) == GroupFrom(g, Range(execution_order), {}, <<>>)

RECURSIVE SortedSeq(_)
SortedSeq(S) ==
    IF S = {} THEN <<>>
    ELSE LET m == CHOOSE x \in S : \A y \in S : x <= y
         IN  <<m>> \o SortedSeq(S \ {m})

Perms(S) == {f \in [1..Cardinality(S) -> S] : \A i, j \in DOMAIN f : f[i] = f[j] => i = j}

\* the lists a level sequence can come out as: sets iterate in any order
RECURSIVE LevelLists(_)
LevelLists(levels) ==
    IF levels = <<>> THEN {<<>>}
    ELSE {<<p>> \o rest : p \in Perms(Head(levels)), rest \in LevelLists(Tail(levels))}

\* ---------------------------------------------------------- value semantics
\* values on pins: "true"/"false" (bool), "none", number strings, other text
IsBool(v) == v \in {"true", "false"}

\* x / 1000.0 succeeds on numbers and bools only
DivOk(v) == IsNum(v) \/ IsBool(v)

\* int(x) with the except (TypeError, ValueError) fallback of the for loop
IntOr1(v) == IF IsNum(v) THEN ToInt(v) ELSE IF v = "true" THEN 1 ELSE IF v = "false" THEN 0 ELSE 1

Truthy(v) == v \notin {"false", "none", "0", ""}

\* _collect_inputs: config, then the injected bucket, then the edges in order
InputKey(node_id) == "__input__" \o node_id

RECURSIVE CollectEdges(_, _, _, _)
CollectEdges(inputs, es, node_id, store) ==
    IF es = <<>> THEN inputs
    ELSE LET e == Head(es)
             hit == /\ e.target = node_id
                    /\ Has(store, e.source)
                    /\ Has(store[e.source], e.source_handle)
         IN  CollectEdges(IF hit THEN Put(inputs, e.target_handle, store[e.source][e.source_handle])
                          ELSE inputs,
                          Tail(es), node_id, store)

\* the same with the injected bucket applied after the edges
CollectInputs_InjectedLast(node, p, store) ==
    LET wired == CollectEdges(node.config, p.edges, node.id, store)
    IN  IF Has(store, InputKey(node.id)) THEN Update(wired, store[InputKey(node.id)])
        ELSE wired

CollectInputs(node, p, store) ==
    LET cfg == node.config
        inj == IF Has(store, InputKey(node.id)) THEN Update(cfg, store[InputKey(node.id)]) ELSE cfg
    IN  CollectEdges(inj, p.edges, node.id, store)

\* _execute_logic_function
LogicRaises(function_id, inputs) ==
    /\ function_id = "delay"
    /\ Has(inputs, "duration_ms")
    /\ ~DivOk(inputs["duration_ms"])

LogicSuspends(function_id) == function_id = "delay"

LogicOutputs(function_id, inputs) ==
    CASE function_id = "branch" ->
            IF Has(inputs, "condition") /\ Truthy(inputs["condition"])
            THEN [true |-> "true", false |-> "false"]
            ELSE [true |-> "false", false |-> "true"]
      [] function_id = "set_variable" ->
            [complete |-> "true",
             value |-> IF Has(inputs, "value") THEN inputs["value"] ELSE "none"]
      [] OTHER -> [complete |-> "true"]

\* _execute_plugin_function_direct: the temporary device cannot be built
\* (or the function fails on it, never being connected); the except clause
\* turns every fault into an output mapping
StatelessFaults == TRUE

StatelessOutputs == [complete |-> "true", error |-> "error"]

\* DeviceManager.execute_function with the mock_servo functions
DeviceRaises(instance_id, function_id) ==
    \/ instance_id \notin RegisteredInstances
    \/ function_id \notin {"home", "get_position"}
    \/ instance_id \notin ConnectedInstances

DeviceSuspends(function_id) == function_id = "home"

DeviceOutputs(function_id) ==
    IF function_id = "home" THEN [complete |-> "true", position |-> "0"]
    ELSE [position |-> "0", velocity |-> "0"]


\* ------------------------------------------------------------------- state
VARIABLES
    pdef,      \* the pipeline definition handed to execute_pipeline
    frames,    \* every value-store dict ever created, by creation order
    cur,       \* self.data_store: index of the dict the engine points at
    events,    \* events handed to event_bus.publish, in order
    hist,      \* what each node execution read and wrote, in order
    tasks,     \* the node coroutines of the current level (asyncio.gather)
    running,   \* the coroutine holding the event loop, "none" between steps
    main,      \* execute_pipeline's own position and locals (store: the dict
               \* it created at line 115)
    result,    \* the record execute_pipeline returned
    calls,     \* concurrent execute_pipeline calls on one engine (SpecCalls)
    wloop,     \* one execution of a while-loop node (SpecWhile)
    composites,\* the composite repository: id -> stored subgraph nodes (SpecSave)
    saved,    \* what the last create or update use case did (SpecSave)
    bus,      \* the event bus and one publish call on it (SpecBus)
    dm,       \* the device manager, its devices and the calls on it (SpecDevices)
    pipelines,\* the pipeline repository directory and what was saved (SpecRepo)
    collected \* one call of _collect_inputs: its arguments and result (SpecInputs)

vars ==
    <<pdef, frames, cur, events, hist, tasks, running, main, result, calls,
      wloop, composites, saved, bus, dm, pipelines, collected>>

\* what a single execute_pipeline call (Spec) leaves alone
outsideEngine ==
    <<calls, wloop, composites, saved, bus, dm, pipelines, collected>>

\* the event classes handlers subscribe to
EventTypes == {"NodeExecutingEvent", "PipelineErrorEvent"}

\* the bus after construction, nothing published; invoked lists the handler
\* calls made, at_publish is the subscriber table at the publish call
IdleBus ==
    [subscribers |-> [t \in EventTypes |-> <<>>], pc |-> "idle", event |-> "",
     handlers |-> <<>>, status |-> <<>>, invoked |-> <<>>,
     at_publish |-> [t \in EventTypes |-> <<>>], engine |-> "idle"]

\* no composite was created or updated yet
NoSave == [op |-> "none", id |-> "", subgraph |-> <<>>, raised |-> FALSE, before |-> EmptyMap]

\* no while-loop node is being executed
IdleWhile ==
    [pc |-> "idle", config |-> EmptyMap, max_iterations |-> 0, iteration |-> 0,
     outputs |-> EmptyMap]

\* the device manager after construction: three empty tables, no device
\* object, no call, no status change observed
IdleManager ==
    [device_instances |-> <<>>, instance_plugins |-> EmptyMap,
     function_classes |-> EmptyMap, objs |-> <<>>, calls |-> <<>>, trans |-> {}]

\* the storage directory after construction: no file; nothing saved yet
EmptyRepo == [files |-> EmptyMap, latest |-> EmptyMap]

\* no call of _collect_inputs is being looked at
NoCollect ==
    [pc |-> "idle", node |-> "", config |-> EmptyMap, edges |-> <<>>,
     store |-> EmptyMap, inputs |-> EmptyMap, mappings |-> <<>>,
     external |-> EmptyMap]

EmptyStore == [k \in {} |-> EmptyMap]

NoErr == [type |-> "", node |-> ""]

Err(type, node) == [type |-> type, node |-> node]

\* seen: how many records hist held when the event was published
Event(type, node, it, tot, info, outs) ==
    [type |-> type, node_id |-> node, iteration |-> it, total_iterations |-> tot,
     info |-> info, outputs |-> outs, seen |-> Len(hist)]

\* frame: the store the step leaves current (or writes), prev: the store
\* that was current when the step began
Hist(op, task, node, pl, depth, data, frame) ==
    [op |-> op, task |-> task, node |-> node, pl |-> pl, depth |-> depth,
     data |-> data, frame |-> frame, prev |-> cur]

\* one call of _execute_node / _execute_loop_body on a coroutine's stack
Act(kind, node, pl, depth) ==
    [kind |-> kind, node |-> node, pl |-> pl, depth |-> depth, pc |-> "enter",
     q |-> <<>>, visited |-> {}, i |-> 0, count |-> 0, parent |-> 0,
     ret |-> EmptyMap, cid |-> ""]

\* the pipeline a call works on: the top-level one or a composite's subgraph
Pipe(pl) ==
    IF pl = "top" THEN pdef
    ELSE [nodes |-> CompositeRepo[pl].nodes, edges |-> CompositeRepo[pl].edges]

Top(st) == st[Len(st)]

Pop(st) == SubSeq(st, 1, Len(st) - 1)

SetTop(st, a) == [st EXCEPT ![Len(st)] = a]

\* ------------------------------------------------------ the input family
\* node kinds offered to the three top-level nodes
Kinds ==
    <<"set", "delay", "home", "dev_off", "stateless", "composite", "cyclic", "for_loop">>

\* composites that nest composites, and a node of a type the engine does
\* not know, offered to the second of two nodes
NestedKinds == {"deep", "selfref", "mutual", "note"}

NodeOfKind(id, kind, count) ==
    CASE kind = "set"       -> FunctionNode(id, "logic", "", "set_variable", [value |-> "v" \o id])
      [] kind = "delay"     -> FunctionNode(id, "logic", "", "delay", EmptyMap)
      [] kind = "home"      -> FunctionNode(id, "mock_servo", "servo_1", "home", EmptyMap)
      [] kind = "dev_off"   -> FunctionNode(id, "mock_servo", "servo_off", "home", EmptyMap)
      [] kind = "stateless" -> FunctionNode(id, "mock_servo", "", "home", EmptyMap)
      [] kind = "composite" -> CompositeNode(id, "CX")
      [] kind = "cyclic"    -> CompositeNode(id, "CC")
      [] kind = "deep"      -> CompositeNode(id, DeepId(1))
      [] kind = "selfref"   -> CompositeNode(id, "CS")
      [] kind = "mutual"    -> CompositeNode(id, "CA")
      [] kind = "note"      -> [NoNode EXCEPT !.id = id, !.type = "note"]
      [] OTHER              -> ForLoopNode(id, [count |-> Str(count)])

\* the output pin an edge leaves from and the input pin it enters
OutPin(node) ==
    CASE node.type = "for_loop"  -> "loop_body"
      [] node.type = "composite" -> "done"
      [] node.function_id = "set_variable" -> "value"
      [] OTHER -> "complete"

InPin(node) ==
    CASE node.type = "for_loop"  -> "count"
      [] node.type = "composite" -> "value"
      [] node.function_id = "set_variable" -> "value"
      [] node.function_id = "delay" -> "duration_ms"
      [] OTHER -> "trigger"

\* candidate arcs in a fixed order; a pipeline's edge list is a sublist
ArcList ==
    <<  <<1, 2>>, <<1, 3>>, <<2, 3>>, <<2, 1>>, <<3, 1>>, <<3, 2>>,
        <<1, 1>>, <<2, 2>>, <<3, 3>> >>

\* node lists up to renaming: every multiset of kinds, listed in catalogue
\* order (the arcs below range over every direction between the nodes); a
\* list may leave the last id out while arcs still name it
KindChoices ==
    {ks \in [DOMAIN TopIds -> DOMAIN Kinds] : \A i, j \in DOMAIN ks : i <= j => ks[i] <= ks[j]}

NodeLists ==
    { [i \in 1..n |-> NodeOfKind(TopIds[i], Kinds[ks[i]], c)]
      : ks \in KindChoices, n \in (Len(TopIds) - 1)..Len(TopIds), c \in {-1, MaxCount} }
    \cup
    { <<NodeOfKind(TopIds[1], Kinds[k], c), NodeOfKind(TopIds[2], nested, c)>>
      : k \in DOMAIN Kinds, nested \in NestedKinds, c \in {-1, MaxCount} }

EdgeLists(ns) ==
    LET p == [nodes |-> ns, edges |-> <<>>]
    IN  { [k \in 1..Len(sel) |->
             Edge(TopIds[ArcList[sel[k]][1]], OutPin(FindNode(TopIds[ArcList[sel[k]][1]], p)),
                  TopIds[ArcList[sel[k]][2]], InPin(FindNode(TopIds[ArcList[sel[k]][2]], p)))]
          : sel \in { SortedSeq(S) : S \in { T \in SUBSET DOMAIN ArcList : Cardinality(T) <= MaxEdges } } }

Pipelines == UNION { { [nodes |-> ns, edges |-> es] : es \in EdgeLists(ns) } : ns \in NodeLists }

Init ==
    /\ pdef \in Pipelines
    /\ frames = <<EmptyStore>>
    /\ cur = 1
    /\ events = <<>>
    /\ hist = <<>>
    /\ tasks = [t \in {} |-> 0]
    /\ running = "none"
    /\ main = [pc |-> "idle", levels |-> <<>>, idx |-> 0, nodes_executed |-> 0, err |-> NoErr,
               store |-> 0]
    /\ result = [returned |-> FALSE, success |-> FALSE, nodes_executed |-> 0,
                 results |-> 0, error |-> NoErr]
    /\ calls = <<>>
    /\ wloop = IdleWhile
    /\ composites = EmptyMap
    /\ saved = NoSave
    /\ bus = IdleBus
    /\ dm = IdleManager
    /\ pipelines = EmptyRepo
    /\ collected = NoCollect

\* ---------------------------------------------------------- the event loop
\* asyncio runs the first step of every gathered coroutine, in list order,
\* before it resumes anything that was suspended
NoNew == \A t \in DOMAIN tasks : tasks[t].status # "new"

Order == IF main.idx \in DOMAIN main.levels THEN main.levels[main.idx] ELSE <<>>

FirstNew(t) ==
    /\ tasks[t].status = "new"
    /\ \A k \in DOMAIN Order : Order[k] = t =>
           \A j \in 1..(k - 1) : tasks[Order[j]].status # "new"

Ready(t) ==
    \/ running = t
    \/ /\ running = "none"
       /\ \/ FirstNew(t)
          \/ NoNew /\ tasks[t].status = "susp"

At(t, kind, pc) ==
    /\ tasks[t].status \in {"new", "susp", "run"}
    /\ Ready(t)
    /\ Top(tasks[t].stack).kind = kind
    /\ Top(tasks[t].stack).pc = pc

\* what one step of coroutine t leaves behind
Step(t, st, fr, c, ev, hi, status, err) ==
    /\ tasks' = [tasks EXCEPT ![t] = [stack |-> st, status |-> status]]
    /\ running' = IF status = "run" THEN t ELSE "none"
    /\ frames' = fr
    /\ cur' = c
    /\ events' = ev
    /\ hist' = hi
    /\ main' = IF status = "failed" /\ main.pc = "gather" /\ main.err = NoErr
               THEN [main EXCEPT !.err = err] ELSE main
    /\ UNCHANGED <<pdef, result, outsideEngine>>

\* _execute_node line 311: self.data_store[node_id] = result, then return
ReturnNode(t, st, fr, c, ev, hi, ret) ==
    LET a == Top(st)
    IN  Step(t, Pop(st), [fr EXCEPT ![c] = Put(fr[c], a.node, ret)], c, ev,
             Append(hi, Hist("store", t, a.node, a.pl, a.depth, ret, c)),
             IF Len(st) = 1 THEN "done" ELSE "run", NoErr)

\* the finally clauses run innermost first, so the outermost composite on
\* the stack that swapped the store decides what self.data_store ends as
RestoredStore(st, c) ==
    LET sw == {k \in DOMAIN st : st[k].kind = "comp" /\ st[k].parent # 0}
    IN  IF sw = {} THEN c ELSE st[CHOOSE k \in sw : \A j \in sw : k <= j].parent

\* the except clauses of _execute_node: a NodeExecutionError passes through,
\* anything else is wrapped with the id of the node whose try block it left
Wrapped(st, e, inTry) ==
    IF e.type = "NodeExecutionError" THEN e
    ELSE IF inTry THEN Err("NodeExecutionError", Top(st).node)
    ELSE LET encl == {k \in 1..(Len(st) - 1) : st[k].kind \in {"comp", "loop", "while"}}
         IN  IF encl = {} THEN e
             ELSE Err("NodeExecutionError", st[CHOOSE k \in encl : \A j \in encl : k >= j].node)

RaiseIn(t, st, ev, hi, e, inTry) ==
    LET w == Wrapped(st, e, inTry)
    IN  Step(t, <<>>, frames, RestoredStore(st, cur), ev,
             Append(hi, Hist("raise", t, Top(st).node, Top(st).pl, Top(st).depth, w,
                             RestoredStore(st, cur))),
             "failed", w)


\* ------------------------------------------------------------ node executors
NodeAt(t) == FindNode(Top(tasks[t].stack).node, Pipe(Top(tasks[t].stack).pl))

\* _execute_node on an id that is not in the node list, or of unknown type
ExecuteUnknownNode(t) ==
    /\ At(t, "node", "enter")
    /\ NodeAt(t).type \notin {"function", "composite", "for_loop", "while_loop"}
    /\ LET st == tasks[t].stack
       IN  IF NodeAt(t).type = "missing"
           THEN RaiseIn(t, st, events, hist, Err("NodeExecutionError", Top(st).node), FALSE)
           ELSE RaiseIn(t, st, events, hist, Err("ValidationError", Top(st).node), FALSE)

\* _execute_function_node: collect the inputs, then dispatch on the path
\* does the invoked function (or its construction) raise on this path
FunctionFaults(node, inputs) ==
    IF node.plugin_id = "logic" THEN LogicRaises(node.function_id, inputs)
    ELSE IF node.device_instance = "" THEN StatelessFaults
    ELSE DeviceRaises(node.device_instance, node.function_id)

\* only _execute_plugin_function_direct catches the fault itself
FunctionRaises(node, inputs) ==
    FunctionFaults(node, inputs) /\ (node.plugin_id = "logic" \/ node.device_instance # "")

FunctionSuspends(node) ==
    IF node.plugin_id = "logic" THEN LogicSuspends(node.function_id)
    ELSE IF node.device_instance = "" THEN FALSE
    ELSE DeviceSuspends(node.function_id)

FunctionOutputs(node, inputs) ==
    IF node.plugin_id = "logic" THEN LogicOutputs(node.function_id, inputs)
    ELSE IF node.device_instance = "" THEN StatelessOutputs
    ELSE DeviceOutputs(node.function_id)

ExecuteFunctionNode(t) ==
    /\ At(t, "node", "enter")
    /\ NodeAt(t).type = "function"
    /\ LET st     == tasks[t].stack
           a      == Top(st)
           node   == NodeAt(t)
           inputs == CollectInputs(node, Pipe(a.pl), frames[cur])
           called == Append(hist, Hist("call", t, a.node, a.pl, a.depth, inputs, cur))
           hi     == IF FunctionFaults(node, inputs)
                     THEN Append(called, Hist("fault", t, a.node, a.pl, a.depth, EmptyMap, cur))
                     ELSE called
           outs   == FunctionOutputs(node, inputs)
       IN  IF FunctionRaises(node, inputs)
           THEN RaiseIn(t, st, events, hi, Err("Exception", a.node), TRUE)
           ELSE IF FunctionSuspends(node)
           THEN Step(t, SetTop(st, [a EXCEPT !.kind = "fn", !.pc = "await", !.ret = outs]),
                     frames, cur, events, hi, "susp", NoErr)
           ELSE ReturnNode(t, st, frames, cur, events, hi, outs)

\* the awaited function returns and _execute_node stores its outputs
FunctionReturns(t) ==
    /\ At(t, "fn", "await")
    /\ LET st == tasks[t].stack
       IN  ReturnNode(t, st, frames, cur, events, hist, Top(st).ret)

\* lines 390-406: inject the external inputs into __input__ buckets
RECURSIVE InjectInputs(_, _, _)
InjectInputs(store, input_mappings, external_inputs) ==
    IF input_mappings = <<>> THEN store
    ELSE LET m   == Head(input_mappings)
             key == InputKey(m.maps_to[1])
             s1  == IF ~Has(store, m.maps_to[1]) THEN Put(store, key, EmptyMap) ELSE store
             s2  == IF Has(s1, key) THEN Put(s1, key, Put(s1[key], m.maps_to[2], external_inputs[m.name]))
                    ELSE Put(s1, key, (m.maps_to[2] :> external_inputs[m.name]))
         IN  IF Len(m.maps_to) < 2 \/ ~Has(external_inputs, m.name)
             THEN InjectInputs(store, Tail(input_mappings), external_inputs)
             ELSE InjectInputs(s2, Tail(input_mappings), external_inputs)

\* lines 425-439: read the declared outputs out of the current store
RECURSIVE CollectOutputs(_, _, _)
CollectOutputs(outputs, output_mappings, store) ==
    IF output_mappings = <<>> THEN outputs
    ELSE LET m   == Head(output_mappings)
             hit == /\ Len(m.maps_from) >= 2
                    /\ Has(store, m.maps_from[1])
                    /\ Has(store[m.maps_from[1]], m.maps_from[2])
         IN  CollectOutputs(IF hit THEN Put(outputs, m.name, store[m.maps_from[1]][m.maps_from[2]])
                            ELSE outputs,
                            Tail(output_mappings), store)

\* (variant: the limit is checked one level too late)
DepthExceeded_Late(depth) == depth > MAX_COMPOSITE_DEPTH

\* (variant: no limit at all)
DepthExceeded_Never(depth) == depth < 0

\* lines 335-341: the nesting depth check
DepthExceeded(depth) == depth >= MAX_COMPOSITE_DEPTH

\* _execute_composite_node up to the loop over the subgraph nodes
\* lines 409-418 for each stored composite: the graph of its subgraph, the
\* cycle check and the order its nodes are executed in (a stored definition
\* gives the same answers every time it is executed)
SubgraphGraph ==
    [c \in DOMAIN CompositeRepo |->
        BuildExecutionGraph([nodes |-> CompositeRepo[c].nodes, edges |-> CompositeRepo[c].edges])]

SubgraphAcyclic == [c \in DOMAIN CompositeRepo |-> IsDirectedAcyclicGraph(SubgraphGraph[c])]

SubgraphOrder == [c \in DOMAIN CompositeRepo |-> TopologicalSort(SubgraphGraph[c])]

ExecuteCompositeNode(t) ==
    /\ At(t, "node", "enter")
    /\ NodeAt(t).type = "composite"
    /\ LET st   == tasks[t].stack
           a    == Top(st)
           node == NodeAt(t)
           cid  == node.composite_id
       IN  IF DepthExceeded(a.depth) \/ cid \notin DOMAIN CompositeRepo
           THEN RaiseIn(t, st, events, hist, Err("NodeExecutionError", a.node), TRUE)
           ELSE
           LET def   == CompositeRepo[cid]
               ext   == CollectInputs(node, Pipe(a.pl), frames[cur])
               store == InjectInputs(EmptyStore, def.inputs, ext)
               fr    == Append(frames, store)
               b     == [a EXCEPT !.kind = "comp", !.pc = "sub", !.parent = cur, !.cid = cid,
                                  !.q = SubgraphOrder[cid]]
               hi    == Append(hist, Hist("enter", t, a.node, a.pl, a.depth, ext, Len(fr)))
           IN  IF ~SubgraphAcyclic[cid]
               THEN RaiseIn(t, SetTop(st, b), events, hi, Err("CircularDependencyError", a.node), TRUE)
               ELSE Step(t, SetTop(st, b), fr, Len(fr), events, hi, "run", NoErr)

\* lines 421-446: run the next subgraph node, or project the outputs,
\* restore the parent store and return
CompositeNext(t) ==
    /\ At(t, "comp", "sub")
    /\ LET st == tasks[t].stack
           a  == Top(st)
       IN  IF a.q # <<>>
           THEN Step(t, Append(SetTop(st, [a EXCEPT !.q = Tail(a.q)]),
                               Act("node", Head(a.q), a.cid, a.depth + 1)),
                     frames, cur, events, hist, "run", NoErr)
           ELSE LET outs == CollectOutputs(EmptyMap, CompositeRepo[a.cid].outputs, frames[cur])
                IN  ReturnNode(t, st, frames, a.parent, events,
                               Append(hist, Hist("exit", t, a.node, a.pl, a.depth, outs, a.parent)),
                               outs)

\* _execute_for_loop_node lines 476-501
LoopBodyNodes(node_id, p) ==
    LET es == SelectSeq(p.edges, LAMBDA e : e.source = node_id /\ e.source_handle = "loop_body")
    IN  [k \in DOMAIN es |-> es[k].target]

ExecuteForLoopNode(t) ==
    /\ At(t, "node", "enter")
    /\ NodeAt(t).type = "for_loop"
    /\ LET st     == tasks[t].stack
           a      == Top(st)
           node   == NodeAt(t)
           inputs == CollectInputs(node, Pipe(a.pl), frames[cur])
           raw    == IF Has(inputs, "count") THEN IntOr1(inputs["count"]) ELSE 1
           count  == IF raw > max_iterations THEN max_iterations ELSE raw
       IN  Step(t, SetTop(st, [a EXCEPT !.kind = "loop", !.pc = "iter", !.i = 0, !.count = count]),
                frames, cur, events,
                Append(hist, Hist("loop", t, a.node, a.pl, a.depth, inputs, cur)), "run", NoErr)

\* lines 504-538: start iteration i (write the counters, publish the
\* iteration event) or return the completion outputs
ForLoopIterate(t) ==
    /\ At(t, "loop", "iter")
    /\ LET st == tasks[t].stack
           a  == Top(st)
       IN  IF a.i < a.count
           THEN Step(t, SetTop(st, [a EXCEPT !.pc = "body", !.q = LoopBodyNodes(a.node, Pipe(a.pl))]),
                     [frames EXCEPT ![cur] = Put(frames[cur], a.node,
                         [loop_body |-> "true", index |-> Str(a.i),
                          iteration |-> Str(a.i + 1), total |-> Str(a.count)])],
                     cur,
                     Append(events, Event("NodeExecuting", a.node, a.i + 1, a.count, "for_loop", EmptyMap)),
                     Append(hist, Hist("iter", t, a.node, a.pl, a.depth, EmptyMap, cur)),
                     "susp", NoErr)
           ELSE ReturnNode(t, st, frames, cur, events, hist,
                    [loop_body |-> "false",
                     index |-> IF a.count > 0 THEN Str(a.count - 1) ELSE "0",
                     complete |-> "true", iterations_completed |-> Str(a.count)])

\* lines 527-530: hand the next body target to _execute_loop_body
ForLoopBody(t) ==
    /\ At(t, "loop", "body")
    /\ LET st == tasks[t].stack
           a  == Top(st)
       IN  IF a.q # <<>>
           THEN Step(t, Append(SetTop(st, [a EXCEPT !.q = Tail(a.q)]),
                               [Act("body", Head(a.q), a.pl, a.depth) EXCEPT !.pc = "bfs", !.q = <<Head(a.q)>>]),
                     frames, cur, events, hist, "run", NoErr)
           ELSE Step(t, SetTop(st, [a EXCEPT !.pc = "iter", !.i = a.i + 1]),
                     frames, cur, events, hist, "run", NoErr)

\* _execute_loop_body lines 657-664: pop ids until an unvisited one, run it
RECURSIVE SkipVisited(_, _)
SkipVisited(q, visited) ==
    IF q # <<>> /\ Head(q) \in visited THEN SkipVisited(Tail(q), visited) ELSE q

LoopBodyStep(t) ==
    /\ At(t, "body", "bfs")
    /\ LET st == tasks[t].stack
           a  == Top(st)
           q  == SkipVisited(a.q, a.visited)
       IN  IF q = <<>>
           THEN Step(t, Pop(st), frames, cur, events, hist, "run", NoErr)
           ELSE Step(t, Append(SetTop(st, [a EXCEPT !.pc = "after", !.q = Tail(q), !.node = Head(q),
                                                      !.visited = a.visited \cup {Head(q)}]),
                               Act("node", Head(q), a.pl, a.depth + 1)),
                     frames, cur, events, hist, "run", NoErr)

\* lines 666-679: enqueue the targets of the node just run, except loops
RECURSIVE Downstream(_, _, _, _, _)
Downstream(q, es, current_id, visited, p) ==
    IF es = <<>> THEN q
    ELSE LET e == Head(es)
             add == /\ e.source = current_id
                    /\ FindNode(e.target, p).type \notin {"for_loop", "while_loop"}
                    /\ e.target \notin visited
         IN  Downstream(IF add THEN Append(q, e.target) ELSE q, Tail(es), current_id, visited, p)

LoopBodyEnqueue(t) ==
    /\ At(t, "body", "after")
    /\ LET st == tasks[t].stack
           a  == Top(st)
       IN  Step(t, SetTop(st, [a EXCEPT !.pc = "bfs",
                                        !.q = Downstream(a.q, Pipe(a.pl).edges, a.node, a.visited, Pipe(a.pl))]),
                frames, cur, events, hist, "run", NoErr)


\* ----------------------------------------------------------- execute_pipeline
RECURSIVE LevelEvents(_, _, _, _)
LevelEvents(ev, order, type, store) ==
    IF order = <<>> THEN ev
    ELSE LevelEvents(
            Append(ev, Event(type, Head(order), 0, 0,
                             IF type # "NodeExecuting" THEN ""
                             ELSE IF FindNode(Head(order), pdef) = NoNode THEN "unknown"
                             ELSE FindNode(Head(order), pdef).type,
                             IF type = "NodeCompleted" /\ Has(store, Head(order))
                             THEN store[Head(order)] ELSE EmptyMap)),
            Tail(order), type, store)

\* lines 76-115: analyse the graph; a cycle raises CircularDependencyError,
\* otherwise publish PipelineStarted and swap in an empty store
StartPipeline ==
    /\ main.pc = "idle"
    /\ running = "none"
    /\ LET graph == BuildExecutionGraph(pdef)
           execution_order == TopologicalSort(graph)
           levels == GroupByExecutionLevel(graph, execution_order)
       IN  IF ~IsDirectedAcyclicGraph(graph)
           THEN /\ main' = [main EXCEPT !.pc = "except", !.err = Err("CircularDependencyError", "")]
                /\ UNCHANGED <<events, frames, cur>>
           ELSE /\ \E lists \in LevelLists(levels) :
                      main' = [main EXCEPT !.pc = "level", !.levels = lists, !.idx = 1,
                                           !.store = Len(frames) + 1]
                /\ events' = Append(events, Event("PipelineStarted", "", 0, 0, "", EmptyMap))
                /\ frames' = Append(frames, EmptyStore)
                /\ cur' = Len(frames')
    /\ UNCHANGED <<pdef, hist, tasks, running, result, outsideEngine>>

\* lines 119-140: publish NodeExecuting for the level, gather its nodes
BeginLevel ==
    /\ main.pc = "level"
    /\ running = "none"
    /\ main.idx <= Len(main.levels)
    /\ events' = LevelEvents(events, Order, "NodeExecuting", frames[cur])
    /\ tasks' = [n \in Range(Order) |->
                    [stack |-> <<Act("node", n, "top", 0)>>, status |-> "new"]]
    /\ main' = [main EXCEPT !.pc = "gather"]
    /\ UNCHANGED <<pdef, frames, cur, hist, running, result, outsideEngine>>

\* lines 141-156: the gather returned, publish NodeCompleted for the level
EndLevel ==
    /\ main.pc = "gather"
    /\ running = "none"
    /\ \A t \in DOMAIN tasks : tasks[t].status = "done"
    /\ events' = LevelEvents(events, Order, "NodeCompleted", frames[cur])
    /\ main' = [main EXCEPT !.pc = "level", !.idx = main.idx + 1,
                            !.nodes_executed = main.nodes_executed + Len(Order)]
    /\ tasks' = [t \in {} |-> 0]
    /\ UNCHANGED <<pdef, frames, cur, hist, running, result, outsideEngine>>

\* lines 158-179: publish PipelineCompleted and return the success record
CompletePipeline ==
    /\ main.pc = "level"
    /\ running = "none"
    /\ main.idx > Len(main.levels)
    /\ events' = Append(events, Event("PipelineCompleted", "", 0, 0, "", EmptyMap))
    /\ result' = [returned |-> TRUE, success |-> TRUE, nodes_executed |-> main.nodes_executed,
                  results |-> cur, error |-> NoErr]
    /\ main' = [main EXCEPT !.pc = "returned"]
    /\ UNCHANGED <<pdef, frames, cur, hist, tasks, running, outsideEngine>>

\* lines 181-192: the except clause takes the first exception (gather
\* re-raises it as soon as one node fails) and publishes PipelineError
HandleException ==
    /\ running = "none"
    /\ \/ main.pc = "except"
       \/ main.pc = "gather" /\ NoNew /\ main.err # NoErr
    /\ events' = Append(events, Event("PipelineError", "", 0, 0, main.err.type, EmptyMap))
    /\ main' = [main EXCEPT !.pc = "errpub"]
    /\ UNCHANGED <<pdef, frames, cur, hist, tasks, running, result, outsideEngine>>

\* lines 194-200: return the failure record around the current store
ReturnFailure ==
    /\ main.pc = "errpub"
    /\ running = "none"
    /\ result' = [returned |-> TRUE, success |-> FALSE, nodes_executed |-> 0,
                  results |-> cur, error |-> main.err]
    /\ main' = [main EXCEPT !.pc = "returned"]
    /\ UNCHANGED <<pdef, frames, cur, events, hist, tasks, running, outsideEngine>>

Next ==
    \/ StartPipeline
    \/ BeginLevel
    \/ EndLevel
    \/ CompletePipeline
    \/ HandleException
    \/ ReturnFailure
    \/ \E t \in DOMAIN tasks : ExecuteUnknownNode(t)
    \/ \E t \in DOMAIN tasks : ExecuteFunctionNode(t)
    \/ \E t \in DOMAIN tasks : FunctionReturns(t)
    \/ \E t \in DOMAIN tasks : ExecuteCompositeNode(t)
    \/ \E t \in DOMAIN tasks : CompositeNext(t)
    \/ \E t \in DOMAIN tasks : ExecuteForLoopNode(t)
    \/ \E t \in DOMAIN tasks : ForLoopIterate(t)
    \/ \E t \in DOMAIN tasks : ForLoopBody(t)
    \/ \E t \in DOMAIN tasks : LoopBodyStep(t)
    \/ \E t \in DOMAIN tasks : LoopBodyEnqueue(t)

Spec == Init /\ [][Next]_vars

\* the pipelines that hold a node of a composite which contains itself
\* (CS directly, CA through CB), and the two-node pipelines with at most
\* one edge that hold none
SelfRefPipelines ==
    {p \in Pipelines :
        \/ \E i \in DOMAIN p.nodes : p.nodes[i].composite_id \in {"CS", "CA"}
        \/ Len(p.nodes) < Len(TopIds) /\ Len(p.edges) <= 1}

InitSelfRef ==
    /\ pdef \in SelfRefPipelines
    /\ frames = <<EmptyStore>>
    /\ cur = 1
    /\ events = <<>>
    /\ hist = <<>>
    /\ tasks = [t \in {} |-> 0]
    /\ running = "none"
    /\ main = [pc |-> "idle", levels |-> <<>>, idx |-> 0, nodes_executed |-> 0, err |-> NoErr,
               store |-> 0]
    /\ result = [returned |-> FALSE, success |-> FALSE, nodes_executed |-> 0,
                 results |-> 0, error |-> NoErr]
    /\ calls = <<>>
    /\ wloop = IdleWhile
    /\ composites = EmptyMap
    /\ saved = NoSave
    /\ bus = IdleBus
    /\ dm = IdleManager
    /\ pipelines = EmptyRepo
    /\ collected = NoCollect

\* once execute_pipeline has been called the asyncio event loop keeps
\* running whatever coroutine is ready
EventLoop == main.pc # "idle" /\ Next

SpecSelfRef == InitSelfRef /\ [][Next]_vars /\ WF_vars(EventLoop)


\* =============================================== concurrent calls (SpecCalls)
\* Two requests call execute_pipeline on the one engine main.py builds; the
\* calls interleave wherever one of them awaits (every event publish, every
\* asyncio.sleep).  frames and cur are the engine's stores and its
\* self.data_store attribute, shared by the calls.
CallIds == {"call1", "call2"}

\* pipelines of two logic nodes that cannot fail: acyclic, every edge between
\* listed nodes and into a set_variable node
CallPipelines ==
    {p \in Pipelines :
        /\ Len(p.nodes) = Len(TopIds) - 1
        /\ \A i \in DOMAIN p.nodes : p.nodes[i].plugin_id = "logic"
        /\ IsDirectedAcyclicGraph(BuildExecutionGraph(p))
        /\ \A k \in DOMAIN p.edges :
              /\ FindNode(p.edges[k].source, p) # NoNode
              /\ FindNode(p.edges[k].target, p).function_id = "set_variable"}

NewCall(p) ==
    [pdef |-> p, pc |-> "idle", levels |-> <<>>, idx |-> 0, tasks |-> <<>>,
     nodes_executed |-> 0, store |-> 0, log |-> <<>>,
     result |-> [returned |-> FALSE, success |-> FALSE, nodes_executed |-> 0, results |-> 0]]

\* one read ("call") or write ("store") of the shared store by a node
CallLog(op, node, data) == [op |-> op, node |-> node, data |-> data, frame |-> cur]

InitCalls ==
    /\ calls \in [CallIds -> {NewCall(p) : p \in CallPipelines}]
    /\ frames = <<EmptyStore>>
    /\ cur = 1
    /\ pdef = [nodes |-> <<>>, edges |-> <<>>]
    /\ events = <<>>
    /\ hist = <<>>
    /\ tasks = [t \in {} |-> 0]
    /\ running = "none"
    /\ main = [pc |-> "returned", levels |-> <<>>, idx |-> 0, nodes_executed |-> 0,
               err |-> NoErr, store |-> 0]
    /\ result = [returned |-> FALSE, success |-> FALSE, nodes_executed |-> 0,
                 results |-> 0, error |-> NoErr]
    /\ wloop = IdleWhile
    /\ composites = EmptyMap
    /\ saved = NoSave
    /\ bus = IdleBus
    /\ dm = IdleManager
    /\ pipelines = EmptyRepo
    /\ collected = NoCollect

outsideCalls ==
    <<pdef, events, hist, tasks, running, main, result, wloop, composites,
      saved, bus, dm, pipelines, collected>>

CallOrder(c) ==
    IF calls[c].idx \in DOMAIN calls[c].levels THEN calls[c].levels[calls[c].idx] ELSE <<>>

\* lines 76-112: analyse the graph and publish PipelineStarted (suspends)
CallStart(c) ==
    /\ calls[c].pc = "idle"
    /\ LET graph == BuildExecutionGraph(calls[c].pdef)
           levels == GroupByExecutionLevel(graph, TopologicalSort(graph))
       IN  \E lists \in LevelLists(levels) :
               calls' = [calls EXCEPT ![c].pc = "started", ![c].levels = lists, ![c].idx = 1]
    /\ UNCHANGED <<frames, cur, outsideCalls>>

\* line 115: self.data_store = {}, on to the first level's publishes
CallReset(c) ==
    /\ calls[c].pc = "started"
    /\ frames' = Append(frames, EmptyStore)
    /\ cur' = Len(frames')
    /\ calls' = [calls EXCEPT ![c].pc = "level", ![c].store = Len(frames')]
    /\ UNCHANGED outsideCalls

\* lines 119-140: the level's NodeExecuting events are out, gather its nodes
CallBeginLevel(c) ==
    /\ calls[c].pc = "level"
    /\ calls[c].idx <= Len(calls[c].levels)
    /\ calls' = [calls EXCEPT ![c].pc = "gather",
                              ![c].tasks = [n \in Range(CallOrder(c)) |->
                                               [status |-> "new", ret |-> EmptyMap]]]
    /\ UNCHANGED <<frames, cur, outsideCalls>>

\* _execute_node on a logic function node: collect from self.data_store,
\* run the function (delay suspends), store at line 311
CallNode(c, n) ==
    /\ calls[c].pc = "gather"
    /\ n \in DOMAIN calls[c].tasks
    /\ calls[c].tasks[n].status = "new"
    /\ \A k \in DOMAIN CallOrder(c) : CallOrder(c)[k] = n =>
           \A j \in 1..(k - 1) : calls[c].tasks[CallOrder(c)[j]].status # "new"
    /\ LET node   == FindNode(n, calls[c].pdef)
           inputs == CollectInputs(node, calls[c].pdef, frames[cur])
           outs   == LogicOutputs(node.function_id, inputs)
           read   == Append(calls[c].log, CallLog("call", n, inputs))
       IN  IF LogicSuspends(node.function_id)
           THEN /\ calls' = [calls EXCEPT ![c].log = read,
                                          ![c].tasks[n] = [status |-> "susp", ret |-> outs]]
                /\ UNCHANGED <<frames, cur>>
           ELSE /\ calls' = [calls EXCEPT ![c].log = Append(read, CallLog("store", n, outs)),
                                          ![c].tasks[n] = [status |-> "done", ret |-> outs]]
                /\ frames' = [frames EXCEPT ![cur] = Put(frames[cur], n, outs)]
                /\ UNCHANGED cur
    /\ UNCHANGED outsideCalls

\* the sleep is over: line 311 stores the outputs into self.data_store
CallNodeReturns(c, n) ==
    /\ calls[c].pc = "gather"
    /\ n \in DOMAIN calls[c].tasks
    /\ calls[c].tasks[n].status = "susp"
    /\ \A m \in DOMAIN calls[c].tasks : calls[c].tasks[m].status # "new"
    /\ calls' = [calls EXCEPT ![c].log = Append(calls[c].log,
                                                CallLog("store", n, calls[c].tasks[n].ret)),
                              ![c].tasks[n].status = "done"]
    /\ frames' = [frames EXCEPT ![cur] = Put(frames[cur], n, calls[c].tasks[n].ret)]
    /\ UNCHANGED <<cur, outsideCalls>>

\* lines 141-156: the gather returned, NodeCompleted events are published
CallEndLevel(c) ==
    /\ calls[c].pc = "gather"
    /\ \A n \in DOMAIN calls[c].tasks : calls[c].tasks[n].status = "done"
    /\ calls' = [calls EXCEPT ![c].pc = "level", ![c].idx = calls[c].idx + 1,
                              ![c].tasks = <<>>,
                              ![c].nodes_executed = calls[c].nodes_executed + Len(CallOrder(c))]
    /\ UNCHANGED <<frames, cur, outsideCalls>>

\* lines 166-172: publish PipelineCompleted (suspends)
CallComplete(c) ==
    /\ calls[c].pc = "level"
    /\ calls[c].idx > Len(calls[c].levels)
    /\ calls' = [calls EXCEPT ![c].pc = "completed"]
    /\ UNCHANGED <<frames, cur, outsideCalls>>

\* lines 174-179: return the success record around self.data_store
CallReturn(c) ==
    /\ calls[c].pc = "completed"
    /\ calls' = [calls EXCEPT ![c].pc = "returned",
                              ![c].result = [returned |-> TRUE, success |-> TRUE,
                                             nodes_executed |-> calls[c].nodes_executed,
                                             results |-> cur]]
    /\ UNCHANGED <<frames, cur, outsideCalls>>

NextCalls ==
    \/ \E c \in CallIds : CallStart(c)
    \/ \E c \in CallIds : CallReset(c)
    \/ \E c \in CallIds : CallBeginLevel(c)
    \/ \E c \in CallIds : \E n \in Range(TopIds) : CallNode(c, n)
    \/ \E c \in CallIds : \E n \in Range(TopIds) : CallNodeReturns(c, n)
    \/ \E c \in CallIds : CallEndLevel(c)
    \/ \E c \in CallIds : CallComplete(c)
    \/ \E c \in CallIds : CallReturn(c)

SpecCalls == InitCalls /\ [][NextCalls]_vars


\* ------------------------------------------------- one while-loop execution
\* _execute_while_loop_node on its own: the node's config is the input, the
\* condition it re-collects before every iteration is whatever the body
\* nodes left in the value store.

\* the config dicts a while-loop node is executed with: no max_iterations
\* key, a small one, and one above the default
WhileConfigs ==
    {EmptyMap, [max_iterations |-> 2], [max_iterations |-> max_iterations + 1]}

\* raw values the condition input can hold; "absent" is a missing key
WhileConditions == {"absent", "true", "False", "no", "0", "", "vA"}

Lower(v) == IF v = "False" THEN "false" ELSE v

\* lines 587-594: the default is True, strings are false when they read
\* false, 0, no or nothing
ConditionHolds(v) ==
    IF v = "absent" THEN TRUE ELSE Lower(v) \notin {"false", "0", "no", ""}

InitWhile ==
    /\ wloop \in {[IdleWhile EXCEPT !.config = c] : c \in WhileConfigs}
    /\ pdef = [nodes |-> <<>>, edges |-> <<>>]
    /\ frames = <<EmptyStore>>
    /\ cur = 1
    /\ events = <<>>
    /\ hist = <<>>
    /\ tasks = [t \in {} |-> 0]
    /\ running = "none"
    /\ main = [pc |-> "returned", levels |-> <<>>, idx |-> 0, nodes_executed |-> 0,
               err |-> NoErr, store |-> 0]
    /\ result = [returned |-> FALSE, success |-> FALSE, nodes_executed |-> 0,
                 results |-> 0, error |-> NoErr]
    /\ calls = <<>>
    /\ composites = EmptyMap
    /\ saved = NoSave
    /\ bus = IdleBus
    /\ dm = IdleManager
    /\ pipelines = EmptyRepo
    /\ collected = NoCollect

outsideWhile ==
    <<pdef, frames, cur, events, hist, tasks, running, main, result, calls,
      composites, saved, bus, dm, pipelines, collected>>

\* lines 568-582: read the cap from the config, start at iteration 0
WhileEnter ==
    /\ wloop.pc = "idle"
    /\ wloop' = [wloop EXCEPT
                    !.pc = "test",
                    !.max_iterations = IF Has(wloop.config, "max_iterations")
                                       THEN wloop.config["max_iterations"]
                                       ELSE 1000,
                    !.iteration = 0]
    /\ UNCHANGED outsideWhile

\* lines 584-616: the loop test, the condition, the iteration's publish
WhileTest ==
    /\ wloop.pc = "test"
    /\ \E v \in WhileConditions :
           wloop' = [wloop EXCEPT
                        !.pc = IF wloop.iteration < wloop.max_iterations /\ ConditionHolds(v)
                               THEN "body" ELSE "exit"]
    /\ UNCHANGED outsideWhile

\* lines 618-623: the body nodes run (one of them may raise), then the
\* iteration is counted
WhileBody ==
    /\ wloop.pc = "body"
    /\ \E ok \in BOOLEAN :
           wloop' = IF ok THEN [wloop EXCEPT !.pc = "test", !.iteration = wloop.iteration + 1]
                    ELSE [wloop EXCEPT !.pc = "raised"]
    /\ UNCHANGED outsideWhile

\* lines 625-633
WhileReturn ==
    /\ wloop.pc = "exit"
    /\ wloop' = [wloop EXCEPT
                    !.pc = "done",
                    !.outputs = [loop_body |-> FALSE,
                                 index |-> IF wloop.iteration > 0 THEN wloop.iteration - 1 ELSE 0,
                                 complete |-> TRUE,
                                 iterations_completed |-> wloop.iteration]]
    /\ UNCHANGED outsideWhile

NextWhile ==
    \/ WhileEnter
    \/ WhileTest
    \/ WhileBody
    \/ WhileReturn

SpecWhile == InitWhile /\ [][NextWhile]_vars


\* ------------------------------------------------ saving composite definitions
\* CreateCompositeUseCase and UpdateCompositeUseCase over one repository.  A
\* subgraph is its node list; the other fields of a definition pass
\* validate() and are left out.

StoreIds == {"P", "Q"}

\* the nodes a submitted subgraph is made of
SubgraphNodes ==
    {FunctionNode("f", "logic", "", "print", EmptyMap)}
    \cup {CompositeNode("c" \o id, id) : id \in StoreIds}

\* submitted subgraphs: up to two nodes
Subgraphs == {<<>>} \cup {<<n>> : n \in SubgraphNodes}
                 \cup {<<n, m>> : n \in SubgraphNodes, m \in SubgraphNodes}

\* CreateCompositeUseCase._check_circular_reference, called with checked_ids
\* left at its default: one error per composite node that names composite_id
\* (the already-visited branch tests membership in an empty set)
CheckCircularReference(composite_id, nodes) ==
    LET checked_ids == {}
    IN  SelectSeq(nodes, LAMBDA node :
            /\ node.type = "composite"
            /\ \/ node.composite_id = composite_id
               \/ node.composite_id \in checked_ids)

\* UpdateCompositeUseCase._check_circular_reference
CheckCircularReferenceOnUpdate(composite_id, nodes) ==
    SelectSeq(nodes, LAMBDA node : node.type = "composite" /\ node.composite_id = composite_id)

InitSave ==
    /\ composites = EmptyMap
    /\ saved = NoSave
    /\ pdef = [nodes |-> <<>>, edges |-> <<>>]
    /\ frames = <<EmptyStore>>
    /\ cur = 1
    /\ events = <<>>
    /\ hist = <<>>
    /\ tasks = [t \in {} |-> 0]
    /\ running = "none"
    /\ main = [pc |-> "returned", levels |-> <<>>, idx |-> 0, nodes_executed |-> 0,
               err |-> NoErr, store |-> 0]
    /\ result = [returned |-> FALSE, success |-> FALSE, nodes_executed |-> 0,
                 results |-> 0, error |-> NoErr]
    /\ calls = <<>>
    /\ wloop = IdleWhile
    /\ bus = IdleBus
    /\ dm = IdleManager
    /\ pipelines = EmptyRepo
    /\ collected = NoCollect

outsideSave ==
    <<pdef, frames, cur, events, hist, tasks, running, main, result, calls,
      wloop, bus, dm, pipelines, collected>>

\* CreateCompositeUseCase.execute with a composite_id given
CreateComposite(id, nodes) ==
    /\ IF CheckCircularReference(id, nodes) # <<>>
       THEN /\ saved' = [op |-> "create", id |-> id, subgraph |-> nodes, raised |-> TRUE,
                         before |-> composites]
            /\ UNCHANGED composites
       ELSE /\ composites' = Put(composites, id, nodes)
            /\ saved' = [op |-> "create", id |-> id, subgraph |-> nodes, raised |-> FALSE,
                         before |-> composites]
    /\ UNCHANGED outsideSave

\* UpdateCompositeUseCase.execute with a subgraph in the data
UpdateComposite(id, nodes) ==
    /\ IF ~Has(composites, id) \/ CheckCircularReferenceOnUpdate(id, nodes) # <<>>
       THEN /\ saved' = [op |-> "update", id |-> id, subgraph |-> nodes, raised |-> TRUE,
                         before |-> composites]
            /\ UNCHANGED composites
       ELSE /\ composites' = Put(composites, id, nodes)
            /\ saved' = [op |-> "update", id |-> id, subgraph |-> nodes, raised |-> FALSE,
                         before |-> composites]
    /\ UNCHANGED outsideSave

NextSave ==
    \/ \E id \in StoreIds : \E nodes \in Subgraphs : CreateComposite(id, nodes)
    \/ \E id \in StoreIds : \E nodes \in Subgraphs : UpdateComposite(id, nodes)

SpecSave == InitSave /\ [][NextSave]_vars


\* ------------------------------------------------------------ the event bus
\* EventBus with the subscriber list of one event type, and one publish of
\* an event of that type made through ExecutionEngine._publish_event.

MaxHandlers == 2

\* the handlers that can be subscribed: plain functions and coroutine
\* functions, returning or raising
Handlers ==
    {[name |-> "sync_ok",   is_coroutine |-> FALSE, raises |-> FALSE],
     [name |-> "sync_bad",  is_coroutine |-> FALSE, raises |-> TRUE],
     [name |-> "async_ok",  is_coroutine |-> TRUE,  raises |-> FALSE],
     [name |-> "async_bad", is_coroutine |-> TRUE,  raises |-> TRUE]}

InitBus ==
    /\ bus = IdleBus
    /\ pdef = [nodes |-> <<>>, edges |-> <<>>]
    /\ frames = <<EmptyStore>>
    /\ cur = 1
    /\ events = <<>>
    /\ hist = <<>>
    /\ tasks = [t \in {} |-> 0]
    /\ running = "none"
    /\ main = [pc |-> "returned", levels |-> <<>>, idx |-> 0, nodes_executed |-> 0,
               err |-> NoErr, store |-> 0]
    /\ result = [returned |-> FALSE, success |-> FALSE, nodes_executed |-> 0,
                 results |-> 0, error |-> NoErr]
    /\ calls = <<>>
    /\ wloop = IdleWhile
    /\ composites = EmptyMap
    /\ saved = NoSave
    /\ dm = IdleManager
    /\ pipelines = EmptyRepo
    /\ collected = NoCollect

outsideBus ==
    <<pdef, frames, cur, events, hist, tasks, running, main, result, calls,
      wloop, composites, saved, dm, pipelines, collected>>

\* list.remove: the first occurrence goes
RemoveFirst(s, h) ==
    LET i == CHOOSE k \in DOMAIN s : s[k] = h /\ \A j \in 1..(k - 1) : s[j] # h
    IN  [k \in 1..(Len(s) - 1) |-> IF k < i THEN s[k] ELSE s[k + 1]]

\* the number of subscriptions of all event types
RECURSIVE TotalSubscribed(_, _)
TotalSubscribed(subs, types) ==
    IF types = {} THEN 0
    ELSE LET t == CHOOSE x \in types : TRUE
         IN  Len(subs[t]) + TotalSubscribed(subs, types \ {t})

\* subscribe: append to the list of the event type, duplicates allowed (a
\* type without a list and a type with an empty list publish alike)
Subscribe(t, h) ==
    /\ TotalSubscribed(bus.subscribers, EventTypes) < MaxHandlers
    /\ bus' = [bus EXCEPT !.subscribers[t] = Append(@, h)]
    /\ UNCHANGED outsideBus

\* unsubscribe: remove the handler from the list of the event type if it
\* is listed there
Unsubscribe(t, h) ==
    /\ h \in Range(bus.subscribers[t])
    /\ bus' = [bus EXCEPT !.subscribers[t] = RemoveFirst(@, h)]
    /\ UNCHANGED outsideBus

\* (variant: gather ends with the first exception)
GatherDone_FailFast(status) ==
    \/ \A i \in DOMAIN status : status[i] \in {"done", "raised"}
    \/ \E i \in DOMAIN status : status[i] = "raised"

\* asyncio.gather(*tasks, return_exceptions=True) is done when every task is
GatherDone(status) == \A i \in DOMAIN status : status[i] \in {"done", "raised"}

\* (variant: an exception among the results is raised again)
PublishOutcome_Reraise(status) ==
    IF \E i \in DOMAIN status : status[i] = "raised" THEN "raised" ELSE "returned"

\* lines 80-88: the results are only inspected for logging
PublishOutcome(status) == "returned"

\* (variant: the handlers of every event type are taken)
Subscribed_AnyType(subs, t) ==
    LET Rest(types) == IF types = {} THEN <<>>
                       ELSE subs[CHOOSE x \in types : TRUE]
    IN  subs[t] \o Rest(EventTypes \ {t})

\* lines 58-65: the copy of the list kept for the concrete type of the event
Subscribed(subs, t) == subs[t]

\* _publish_event calls publish, which runs up to its await of gather: the
\* snapshot is taken and a task is created for each handler; without
\* handlers it returns at once
Publish(t) ==
    /\ bus.pc = "idle"
    /\ LET handlers == Subscribed(bus.subscribers, t)
       IN  bus' = IF handlers = <<>>
                  THEN [bus EXCEPT !.pc = "returned", !.engine = "awaiting",
                                   !.event = t, !.at_publish = bus.subscribers]
                  ELSE [bus EXCEPT !.pc = "gather", !.engine = "awaiting",
                                   !.event = t, !.at_publish = bus.subscribers,
                                   !.handlers = handlers,
                                   !.status = [i \in DOMAIN handlers |-> "created"]]
    /\ UNCHANGED outsideBus

\* _safe_execute, first run of task i (tasks start in creation order): a plain
\* function runs to its end; a coroutine function runs to its end or to its
\* first await
HandlerStart(i) ==
    /\ bus.pc = "gather"
    /\ i \in DOMAIN bus.status
    /\ bus.status[i] = "created"
    /\ \A j \in 1..(i - 1) : bus.status[j] # "created"
    /\ \E suspends \in BOOLEAN :
           /\ suspends => bus.handlers[i].is_coroutine
           /\ bus' = [bus EXCEPT !.status[i] =
                         IF suspends THEN "suspended"
                         ELSE IF bus.handlers[i].raises THEN "raised" ELSE "done",
                                 !.invoked = Append(@, [handler |-> bus.handlers[i],
                                                        event |-> bus.event])]
    /\ UNCHANGED outsideBus

\* a suspended coroutine handler is resumed and ends
HandlerResume(i) ==
    /\ bus.pc = "gather"
    /\ i \in DOMAIN bus.status
    /\ bus.status[i] = "suspended"
    /\ bus' = [bus EXCEPT !.status[i] = IF bus.handlers[i].raises THEN "raised" ELSE "done"]
    /\ UNCHANGED outsideBus

\* gather is done: publish logs the exceptions among the results and ends
PublishReturn ==
    /\ bus.pc = "gather"
    /\ GatherDone(bus.status)
    /\ bus' = [bus EXCEPT !.pc = PublishOutcome(bus.status)]
    /\ UNCHANGED outsideBus

\* _publish_event after its await of publish: an exception is logged (lines
\* 1033-1034), the caller goes on either way
PublishEventReturns ==
    /\ bus.pc \in {"returned", "raised"}
    /\ bus.engine = "awaiting"
    /\ bus' = [bus EXCEPT !.engine = "continued"]
    /\ UNCHANGED outsideBus

NextBus ==
    \/ \E h \in Handlers : Subscribe("NodeExecutingEvent", h)
    \/ \E h \in Handlers : Unsubscribe("NodeExecutingEvent", h)
    \/ Publish("NodeExecutingEvent")
    \/ \E i \in 1..MaxHandlers : HandlerStart(i)
    \/ \E i \in 1..MaxHandlers : HandlerResume(i)
    \/ PublishReturn
    \/ PublishEventReturns

SpecBus == InitBus /\ [][NextBus]_vars

\* the bus with subscribers of two event types and one publish of either;
\* the handlers are a plain function, a coroutine function and a plain
\* function that raises
TopicHandlers == {h \in Handlers : h.is_coroutine => ~h.raises}

NextTopics ==
    \/ \E t \in EventTypes : \E h \in TopicHandlers : Subscribe(t, h)
    \/ \E t \in EventTypes : \E h \in TopicHandlers : Unsubscribe(t, h)
    \/ \E t \in EventTypes : Publish(t)
    \/ \E i \in 1..MaxHandlers : HandlerStart(i)
    \/ \E i \in 1..MaxHandlers : HandlerResume(i)
    \/ PublishReturn
    \/ PublishEventReturns

SpecTopics == InitBus /\ [][NextTopics]_vars


\* ------------------------------------------------------- the device manager
\* DeviceManager keeps three dicts keyed by instance id. The device objects
\* live in dm.objs (a call that fetched a device keeps working on the object
\* after the instance was removed); dm.device_instances is the dict's entry
\* array in insertion order, a deleted entry leaving a hole, which is what a
\* dict iterator walks. dm.trans holds the status changes the last step made,
\* each as [from, to, via].
MaxOps == 3

DeviceIds == {"d1", "d2"}

\* the discovered plugins and the function classes load_plugin returns
PluginFunctions ==
    [mock_servo |-> {"home"}, power_supply |-> {"connect", "disconnect"},
     logic |-> {}]

Plugins == DOMAIN PluginFunctions

FunctionIds == {"home", "connect", "disconnect"}

\* how the awaited connection attempt of a device can end: it completes, it
\* raises an Exception inside connect's try block, or the sleep is cancelled
\* (CancelledError is no Exception and leaves connect)
ConnectOutcomes == {"ok", "error", "cancelled"}

Tomb == [key |-> "", obj |-> 0]

InstanceIds(d) ==
    {d.device_instances[i].key : i \in DOMAIN d.device_instances} \ {""}

\* instance_id in self.device_instances
InstanceExists_Never(d, id) == FALSE

InstanceExists(d, id) == id \in InstanceIds(d)

\* self.device_instances[instance_id]
DeviceOf(d, id) ==
    d.device_instances[CHOOSE i \in DOMAIN d.device_instances :
                           d.device_instances[i].key = id].obj

\* len(self.device_instances)
DictLen(d) == Cardinality(InstanceIds(d))

\* dict[key] = value: an existing key keeps its entry, a new one is appended
DictPut(entries, id, o) ==
    IF \E i \in DOMAIN entries : entries[i].key = id
    THEN [i \in DOMAIN entries |->
            IF entries[i].key = id THEN [key |-> id, obj |-> o] ELSE entries[i]]
    ELSE Append(entries, [key |-> id, obj |-> o])

\* (variant: the entry stays)
DictDelete_Keep(entries, id) == entries

\* del dict[key]
DictDelete(entries, id) ==
    [i \in DOMAIN entries |-> IF entries[i].key = id THEN Tomb ELSE entries[i]]

Without(m, k) == [x \in DOMAIN m \ {k} |-> m[x]]

\* BaseDevice.__init__
NewDevice(plugin) ==
    [plugin |-> plugin, status |-> "disconnected", error_message |-> "none",
     is_homed |-> FALSE]

\* self.status = ...
SetStatus(d, o, to, via) ==
    [d EXCEPT !.objs[o].status = to,
              !.trans = IF d.objs[o].status = to THEN @
                        ELSE @ \cup {[from |-> d.objs[o].status, to |-> to,
                                      via |-> via]}]

SetErrorOn(d, o, message) ==
    [SetStatus(d, o, "error", "set_error") EXCEPT
        !.objs[o].error_message = message]

ClearErrorOn(d, o) ==
    IF d.objs[o].status = "error"
    THEN [SetStatus(d, o, "disconnected", "clear_error") EXCEPT
            !.objs[o].error_message = "none"]
    ELSE d

\* connect() of the logic device finishes at once; the other devices set
\* CONNECTING and sleep
Suspends(plugin) == plugin # "logic"

ConnectBegin(d, o) ==
    IF Suspends(d.objs[o].plugin)
    THEN SetStatus(d, o, "connecting", "connect")
    ELSE SetStatus(d, o, "connected", "connect")

\* the rest of connect() after the sleep; a cancelled sleep leaves the
\* device as it is
ConnectEnd(d, o, outcome) ==
    CASE outcome = "ok" -> SetStatus(d, o, "connected", "connect")
      [] outcome = "error" -> SetErrorOn(d, o, "connect failed")
      [] OTHER -> d

DisconnectOn(d, o) == SetStatus(d, o, "disconnected", "disconnect")

DeviceCall(op, id, plugin, auto, fn, d) ==
    [op |-> op, id |-> id, plugin |-> plugin, auto_connect |-> auto,
     function_id |-> fn, pc |-> "", obj |-> 0, pos |-> 0, len |-> 0,
     used |-> 0, results |-> EmptyMap, status |-> "running", error |-> "",
     began |-> IF id = "" THEN InstanceIds(d) ELSE {},
     status_before |-> IF op = "execute" /\ id \in InstanceIds(d)
                       THEN d.objs[DeviceOf(d, id)].status ELSE ""]

Returns(c) ==
    [c EXCEPT !.status = "returned", !.pc = "", !.pos = 0, !.len = 0, !.used = 0]

Raises(c, error) ==
    [c EXCEPT !.status = "raised", !.error = error, !.pc = "", !.pos = 0,
              !.len = 0, !.used = 0]

WithCall(d, c) == [d EXCEPT !.calls = Append(@, c)]

InitDevices ==
    /\ dm = IdleManager
    /\ pdef = [nodes |-> <<>>, edges |-> <<>>]
    /\ frames = <<EmptyStore>>
    /\ cur = 1
    /\ events = <<>>
    /\ hist = <<>>
    /\ tasks = [t \in {} |-> 0]
    /\ running = "none"
    /\ main = [pc |-> "returned", levels |-> <<>>, idx |-> 0, nodes_executed |-> 0,
               err |-> NoErr, store |-> 0]
    /\ result = [returned |-> FALSE, success |-> FALSE, nodes_executed |-> 0,
                 results |-> 0, error |-> NoErr]
    /\ calls = <<>>
    /\ wloop = IdleWhile
    /\ composites = EmptyMap
    /\ saved = NoSave
    /\ bus = IdleBus
    /\ pipelines = EmptyRepo
    /\ collected = NoCollect

outsideDevices ==
    <<pdef, frames, cur, events, hist, tasks, running, main, result, calls,
      wloop, composites, saved, bus, pipelines, collected>>

\* the manager as a step finds it: dm.trans holds the status changes of one
\* step only
Now == [dm EXCEPT !.trans = {}]

\* create_device_instance up to its first suspension
CreateDeviceInstance(id, plugin, auto) ==
    /\ Len(Now.calls) < MaxOps
    /\ LET c == DeviceCall("create", id, plugin, auto, "", Now)
           o == Len(Now.objs) + 1
           stored == [Now EXCEPT
                        !.objs = Append(@, NewDevice(plugin)),
                        !.device_instances = DictPut(@, id, o),
                        !.instance_plugins = Put(Without(@, id), id, plugin),
                        !.function_classes =
                            Put(Without(@, id), id, PluginFunctions[plugin])]
           connecting == ConnectBegin(stored, o)
       IN  dm' = IF InstanceExists(Now, id)
                 THEN WithCall(Now, Raises(c, "AlreadyExistsError"))
                 ELSE IF ~auto
                 THEN WithCall(stored, Returns([c EXCEPT !.obj = o]))
                 ELSE IF Suspends(plugin)
                 THEN WithCall(connecting, [c EXCEPT !.obj = o, !.pc = "connect"])
                 ELSE WithCall(connecting, Returns([c EXCEPT !.obj = o]))
    /\ UNCHANGED outsideDevices

\* remove_device_instance: disconnect() has no suspension point
RemoveDeviceInstance(id) ==
    /\ Len(Now.calls) < MaxOps
    /\ LET c == DeviceCall("remove", id, "", FALSE, "", Now)
           o == DeviceOf(Now, id)
           off == IF Now.objs[o].status = "connected" THEN DisconnectOn(Now, o)
                  ELSE Now
           gone == [off EXCEPT
                      !.device_instances = DictDelete(@, id),
                      !.instance_plugins = Without(@, id),
                      !.function_classes = Without(@, id)]
       IN  dm' = IF ~(id \in InstanceIds(Now))
                 THEN WithCall(Now, Raises(c, "DeviceNotFoundError"))
                 ELSE WithCall(gone, Returns([c EXCEPT !.obj = o]))
    /\ UNCHANGED outsideDevices

\* execute_function up to the first suspension of the function's execute
ExecuteFunction(id, fn) ==
    /\ Len(Now.calls) < MaxOps
    /\ LET c == DeviceCall("execute", id, "", FALSE, fn, Now)
           o == DeviceOf(Now, id)
           co == [c EXCEPT !.obj = o]
       IN  dm' =
             IF ~(id \in InstanceIds(Now))
             THEN WithCall(Now, Raises(c, "DeviceNotFoundError"))
             ELSE IF ~Has(Now.function_classes, id)
                     \/ ~(fn \in Now.function_classes[id])
             THEN WithCall(Now, Raises(co, "DeviceFunctionError"))
             ELSE CASE fn = "home" ->
                         IF Now.objs[o].status # "connected"
                         THEN WithCall(Now, Raises(co, "DeviceFunctionError"))
                         ELSE WithCall(Now, [co EXCEPT !.pc = "home"])
                    [] fn = "connect" ->
                         IF Suspends(Now.objs[o].plugin)
                         THEN WithCall(ConnectBegin(Now, o),
                                       [co EXCEPT !.pc = "connect"])
                         ELSE WithCall(ConnectBegin(Now, o), Returns(co))
                    [] OTHER ->
                         WithCall(DisconnectOn(Now, o), Returns(co))
    /\ UNCHANGED outsideDevices

\* home_axis after its sleep
HomeResume(i) ==
    /\ i \in DOMAIN Now.calls
    /\ Now.calls[i].status = "running"
    /\ Now.calls[i].pc = "home"
    /\ dm' = [Now EXCEPT !.objs[Now.calls[i].obj].is_homed = TRUE,
                        !.calls[i] = Returns(@)]
    /\ UNCHANGED outsideDevices

\* next() of the iterator over self.device_instances.items()
NextEntry(d, c) ==
    LET live == {j \in DOMAIN d.device_instances :
                    j > c.pos /\ d.device_instances[j] # Tomb}
    IN  IF live = {} THEN 0 ELSE CHOOSE j \in live : \A k \in live : j <= k

\* the for loop of connect_all_devices from the iterator's position to the
\* next suspension, the end of the dict or an error of the iterator
RECURSIVE ConnectAllLoop(_, _)
ConnectAllLoop(d, i) ==
    LET c == d.calls[i]
        j == NextEntry(d, c)
    IN  IF DictLen(d) # c.used
        THEN [d EXCEPT !.calls[i] = Raises(c, "RuntimeError")]
        ELSE IF j = 0
        THEN [d EXCEPT !.calls[i] = Returns(c)]
        ELSE IF c.len = 0
        THEN [d EXCEPT !.calls[i] = Raises(c, "RuntimeError")]
        ELSE LET e == d.device_instances[j]
                 at == [c EXCEPT !.pos = j, !.len = @ - 1, !.id = e.key,
                                 !.obj = e.obj]
                 begun == ConnectBegin(d, e.obj)
             IN  IF Suspends(d.objs[e.obj].plugin)
                 THEN [begun EXCEPT !.calls[i] = [at EXCEPT !.pc = "connect"]]
                 ELSE ConnectAllLoop(
                        [begun EXCEPT !.calls[i] =
                            [at EXCEPT !.results = Put(Without(@, e.key),
                                                       e.key, TRUE)]], i)

ConnectAllDevices ==
    /\ Len(Now.calls) < MaxOps
    /\ LET c == [DeviceCall("connect_all", "", "", FALSE, "", Now) EXCEPT
                    !.used = DictLen(Now), !.len = DictLen(Now)]
       IN  dm' = ConnectAllLoop(WithCall(Now, c), Len(Now.calls) + 1)
    /\ UNCHANGED outsideDevices

\* a suspended connect() is resumed, in whichever call awaits it; the call's
\* results keep what connect() returned
ConnectResume(i, outcome) ==
    /\ i \in DOMAIN Now.calls
    /\ Now.calls[i].status = "running"
    /\ Now.calls[i].pc = "connect"
    /\ LET c == Now.calls[i]
           d == ConnectEnd(Now, c.obj, outcome)
       IN  dm' =
             IF outcome = "cancelled"
             THEN [d EXCEPT !.calls[i] = Raises(c, "CancelledError")]
             ELSE IF c.op = "connect_all"
             THEN ConnectAllLoop(
                    [d EXCEPT !.calls[i] =
                        [c EXCEPT !.pc = "",
                                  !.results = Put(Without(@, c.id), c.id,
                                                  outcome = "ok")]], i)
             ELSE [d EXCEPT !.calls[i] =
                       Returns([c EXCEPT !.results =
                                  Put(EmptyMap, c.id, outcome = "ok")])]
    /\ UNCHANGED outsideDevices

RegisteredObjs(d) ==
    {d.device_instances[i].obj : i \in DOMAIN d.device_instances} \ {0}

\* disconnect_all_devices: no disconnect() suspends, the loop runs through
DisconnectAllDevices ==
    /\ Len(Now.calls) < MaxOps
    /\ LET c == DeviceCall("disconnect_all", "", "", FALSE, "", Now)
           off == [Now EXCEPT
                     !.objs = [o \in DOMAIN @ |->
                                 IF o \in RegisteredObjs(Now)
                                 THEN [@[o] EXCEPT !.status = "disconnected"]
                                 ELSE @[o]],
                     !.trans = @ \cup
                        {[from |-> Now.objs[o].status, to |-> "disconnected",
                          via |-> "disconnect"] :
                            o \in {x \in RegisteredObjs(Now) :
                                     Now.objs[x].status # "disconnected"}}]
       IN  dm' = WithCall(off,
                    Returns([c EXCEPT !.results =
                                [k \in InstanceIds(Now) |-> TRUE]]))
    /\ UNCHANGED outsideDevices

\* health_check_all: no health_check() suspends
HealthCheckAll ==
    /\ Len(Now.calls) < MaxOps
    /\ LET c == DeviceCall("health_check_all", "", "", FALSE, "", Now)
       IN  dm' = WithCall(Now,
                    Returns([c EXCEPT !.results =
                                [k \in InstanceIds(Now) |->
                                    Now.objs[DeviceOf(Now, k)].status
                                        = "connected"]]))
    /\ UNCHANGED outsideDevices

\* BaseDevice.set_error and clear_error on a registered device
SetError(id) ==
    /\ id \in InstanceIds(Now)
    /\ dm' = SetErrorOn(Now, DeviceOf(Now, id), "fault")
    /\ UNCHANGED outsideDevices

ClearError(id) ==
    /\ id \in InstanceIds(Now)
    /\ Now.objs[DeviceOf(Now, id)].status = "error"
    /\ dm' = ClearErrorOn(Now, DeviceOf(Now, id))
    /\ UNCHANGED outsideDevices

NextDevices ==
    \/ \E id \in DeviceIds, plugin \in Plugins, auto \in BOOLEAN :
          CreateDeviceInstance(id, plugin, auto)
    \/ \E id \in DeviceIds : RemoveDeviceInstance(id)
    \/ \E id \in DeviceIds, fn \in FunctionIds : ExecuteFunction(id, fn)
    \/ \E i \in 1..MaxOps : HomeResume(i)
    \/ ConnectAllDevices
    \/ \E i \in 1..MaxOps, outcome \in ConnectOutcomes : ConnectResume(i, outcome)
    \/ DisconnectAllDevices
    \/ HealthCheckAll
    \/ \E id \in DeviceIds : SetError(id)
    \/ \E id \in DeviceIds : ClearError(id)

SpecDevices == InitDevices /\ [][NextDevices]_vars

\* create_device_instance calls only, interleaved at their suspensions
NextCreate ==
    \/ \E id \in DeviceIds, plugin \in Plugins, auto \in BOOLEAN :
          CreateDeviceInstance(id, plugin, auto)
    \/ \E i \in 1..MaxOps, outcome \in ConnectOutcomes : ConnectResume(i, outcome)

SpecCreate == InitDevices /\ [][NextCreate]_vars

\* creations and removals only, with the connects creations wait for
NextRegistry ==
    \/ \E id \in DeviceIds, plugin \in Plugins, auto \in BOOLEAN :
          CreateDeviceInstance(id, plugin, auto)
    \/ \E id \in DeviceIds : RemoveDeviceInstance(id)
    \/ \E i \in 1..MaxOps, outcome \in ConnectOutcomes : ConnectResume(i, outcome)

SpecRegistry == InitDevices /\ [][NextRegistry]_vars


\* ---------------------------------------------------- the pipeline repository
\* JsonPipelineRepository keeps one JSON file per pipeline and an index file
\* in one directory. An id or file name is its sequence of characters.
\* pipelines.files maps a file name (without ".json") to the JSON object in the
\* file: its "data" member ("absent" when it has none) and the ids that are
\* members of it as index rows. pipelines.latest records, per id, the definition
\* last saved and not deleted since.
MetadataName == <<"_", "m", "e", "t", "a", "d", "a", "t", "a">>

PipelineIds == {<<"a", "b">>, <<"a", ".", "b">>, <<"p">>, MetadataName}

PipelineData == {"X", "Y"}

\* c.isalnum() or c in ('_', '-')
IsSafeChar(c) == ~(c \in {".", "/"})

\* _get_file_path: the unsafe characters are dropped from the id
GetFilePath(pipeline_id) == SelectSeq(pipeline_id, IsSafeChar)

NoIndex == [data |-> "absent", index |-> {}]

\* _load_metadata: the object in the index file, {} without the file
LoadMetadata(files) ==
    IF Has(files, MetadataName) THEN files[MetadataName] ELSE NoIndex

\* _save_metadata
SaveMetadata(files, metadata) ==
    Put(Without(files, MetadataName), MetadataName, metadata)

\* get: None without the file, else full_data.get("data", full_data)
Get(pipeline_id) ==
    LET path == GetFilePath(pipeline_id)
    IN  IF ~Has(pipelines.files, path) THEN "None"
        ELSE IF pipelines.files[path].data # "absent" THEN pipelines.files[path].data
        ELSE "full_data"

InitRepo ==
    /\ pipelines = EmptyRepo
    /\ dm = IdleManager
    /\ pdef = [nodes |-> <<>>, edges |-> <<>>]
    /\ frames = <<EmptyStore>>
    /\ cur = 1
    /\ events = <<>>
    /\ hist = <<>>
    /\ tasks = [t \in {} |-> 0]
    /\ running = "none"
    /\ main = [pc |-> "returned", levels |-> <<>>, idx |-> 0, nodes_executed |-> 0,
               err |-> NoErr, store |-> 0]
    /\ result = [returned |-> FALSE, success |-> FALSE, nodes_executed |-> 0,
                 results |-> 0, error |-> NoErr]
    /\ calls = <<>>
    /\ wloop = IdleWhile
    /\ composites = EmptyMap
    /\ saved = NoSave
    /\ bus = IdleBus
    /\ collected = NoCollect

outsideRepo ==
    <<pdef, frames, cur, events, hist, tasks, running, main, result, calls,
      wloop, composites, saved, bus, dm, collected>>

\* save: the pipeline file is written, then the index is loaded, given a row
\* for the id and written back
Save(pipeline_id, pipeline_data) ==
    /\ LET path == GetFilePath(pipeline_id)
           written == Put(Without(pipelines.files, path), path,
                          [data |-> pipeline_data, index |-> {}])
           metadata == LoadMetadata(written)
       IN  pipelines' = [files |-> SaveMetadata(written,
                                 [metadata EXCEPT !.index = @ \cup {pipeline_id}]),
                    latest |-> Put(Without(pipelines.latest, pipeline_id),
                                   pipeline_id, pipeline_data)]
    /\ UNCHANGED outsideRepo

\* delete: False without the file; else the file is unlinked and the id's
\* row, if the index has one, is removed
Delete(pipeline_id) ==
    /\ LET path == GetFilePath(pipeline_id)
           unlinked == Without(pipelines.files, path)
           metadata == LoadMetadata(unlinked)
       IN  pipelines' = [files |->
                        IF ~Has(pipelines.files, path) THEN pipelines.files
                        ELSE IF pipeline_id \in metadata.index
                        THEN SaveMetadata(unlinked,
                                 [metadata EXCEPT !.index = @ \ {pipeline_id}])
                        ELSE unlinked,
                    latest |-> Without(pipelines.latest, pipeline_id)]
    /\ pipelines' # pipelines
    /\ UNCHANGED outsideRepo

NextRepo ==
    \/ \E id \in PipelineIds, data \in PipelineData : Save(id, data)
    \/ \E id \in PipelineIds : Delete(id)

SpecRepo == InitRepo /\ [][NextRepo]_vars


\* ------------------------------------------------------- collecting inputs
\* One call of _collect_inputs for node "N" over a value store that may or
\* may not hold the buckets of the sources S1 and S2 and the injected bucket
\* of N, with static config on the pins and a list of edges.
InputConfigs == {EmptyMap, [value |-> "cfg"], [value |-> "cfg", q |-> "cfgq"]}

\* a bucket is absent, empty, or holds the one output
BucketChoices(pin, v) ==
    {[present |-> FALSE, bucket |-> EmptyMap],
     [present |-> TRUE, bucket |-> EmptyMap],
     [present |-> TRUE, bucket |-> (pin :> v)]}

StoreOf(s1, s2, inj) ==
    (IF s1.present THEN "S1" :> s1.bucket ELSE EmptyMap)
    @@ (IF s2.present THEN "S2" :> s2.bucket ELSE EmptyMap)
    @@ (IF inj.present THEN InputKey("N") :> inj.bucket ELSE EmptyMap)

InputStores ==
    {StoreOf(s1, s2, inj) :
        s1 \in BucketChoices("out", "e1"), s2 \in BucketChoices("out", "e2"),
        inj \in BucketChoices("value", "inj")}

InputEdges ==
    {Edge("S1", "out", "N", "value"), Edge("S2", "out", "N", "value"),
     Edge("S1", "out", "N", "q"), Edge("S1", "out", "M", "value")}

InputEdgeLists == UNION {[1..n -> InputEdges] : n \in 0..MaxEdges}

InitInputs ==
    /\ collected \in {[pc |-> "ready", node |-> "N", config |-> c, edges |-> es,
                        store |-> st, inputs |-> EmptyMap, mappings |-> <<>>,
                        external |-> EmptyMap] :
                          c \in InputConfigs, es \in InputEdgeLists,
                          st \in InputStores}
    /\ pipelines = EmptyRepo
    /\ dm = IdleManager
    /\ pdef = [nodes |-> <<>>, edges |-> <<>>]
    /\ frames = <<EmptyStore>>
    /\ cur = 1
    /\ events = <<>>
    /\ hist = <<>>
    /\ tasks = [t \in {} |-> 0]
    /\ running = "none"
    /\ main = [pc |-> "returned", levels |-> <<>>, idx |-> 0, nodes_executed |-> 0,
               err |-> NoErr, store |-> 0]
    /\ result = [returned |-> FALSE, success |-> FALSE, nodes_executed |-> 0,
                 results |-> 0, error |-> NoErr]
    /\ calls = <<>>
    /\ wloop = IdleWhile
    /\ composites = EmptyMap
    /\ saved = NoSave
    /\ bus = IdleBus

outsideInputs ==
    <<pdef, frames, cur, events, hist, tasks, running, main, result, calls,
      wloop, composites, saved, bus, dm, pipelines>>

Collect ==
    /\ collected.pc = "ready"
    /\ LET node == FunctionNode(collected.node, "logic", "", "set_variable",
                                collected.config)
           p == [nodes |-> <<node>>, edges |-> collected.edges]
       IN  collected' = [collected EXCEPT
                            !.pc = "done",
                            !.inputs = CollectInputs(node, p, collected.store)]
    /\ UNCHANGED outsideInputs

NextInputs == Collect

SpecInputs == InitInputs /\ [][NextInputs]_vars

\* A composite node with input mappings onto its internal nodes N and M and
\* with external inputs a and b: the inputs are injected into the fresh
\* store of the subgraph, the internal source S1 may run, and N collects.
InputMappings ==
    {[name |-> n, maps_to |-> t] :
        n \in {"a", "b"},
        t \in {<<"N", "value">>, <<"N", "q">>, <<"M", "value">>, <<"N">>}}

MappingLists == UNION {[1..n -> InputMappings] : n \in 0..2}

ExternalInputs == {EmptyMap, "a" :> "xa", "b" :> "xb", ("a" :> "xa") @@ ("b" :> "xb")}

InitInject ==
    /\ collected \in {[pc |-> "composite", node |-> "N", config |-> c, edges |-> es,
                        store |-> EmptyStore, inputs |-> EmptyMap, mappings |-> ms,
                        external |-> ext] :
                          c \in InputConfigs,
                          es \in {<<>>, <<Edge("S1", "out", "N", "value")>>},
                          ms \in MappingLists, ext \in ExternalInputs}
    /\ pipelines = EmptyRepo
    /\ dm = IdleManager
    /\ pdef = [nodes |-> <<>>, edges |-> <<>>]
    /\ frames = <<EmptyStore>>
    /\ cur = 1
    /\ events = <<>>
    /\ hist = <<>>
    /\ tasks = [t \in {} |-> 0]
    /\ running = "none"
    /\ main = [pc |-> "returned", levels |-> <<>>, idx |-> 0, nodes_executed |-> 0,
               err |-> NoErr, store |-> 0]
    /\ result = [returned |-> FALSE, success |-> FALSE, nodes_executed |-> 0,
                 results |-> 0, error |-> NoErr]
    /\ calls = <<>>
    /\ wloop = IdleWhile
    /\ composites = EmptyMap
    /\ saved = NoSave
    /\ bus = IdleBus

\* _execute_composite_node, lines 386-406
Inject ==
    /\ collected.pc = "composite"
    /\ collected' = [collected EXCEPT
                        !.pc = "ready",
                        !.store = InjectInputs(EmptyStore, collected.mappings,
                                               collected.external)]
    /\ UNCHANGED outsideInputs

\* the internal source node S1 has run and stored its output
SourceStores ==
    /\ collected.pc = "ready"
    /\ collected.mappings # <<>>
    /\ ~Has(collected.store, "S1")
    /\ collected' = [collected EXCEPT !.store = Put(@, "S1", ("out" :> "e1"))]
    /\ UNCHANGED outsideInputs

NextInject == Inject \/ SourceStores \/ Collect

SpecInject == InitInject /\ [][NextInject]_vars


\* --------------------------------------------------- loops with two targets
\* a for-loop C whose loop_body pin feeds both A and B while an edge also
\* joins A and B (in either direction), and the two-node pipelines with at
\* most one edge
LoopNodeLists ==
    {<<NodeOfKind(TopIds[1], ka, MaxCount), NodeOfKind(TopIds[2], kb, MaxCount),
       NodeOfKind(TopIds[3], "for_loop", MaxCount)>> : ka, kb \in {"set", "home"}}

LoopEdgeLists(ns) ==
    LET p == [nodes |-> ns, edges |-> <<>>]
        E(i, j) == Edge(TopIds[i], OutPin(FindNode(TopIds[i], p)),
                        TopIds[j], InPin(FindNode(TopIds[j], p)))
    IN  {<<E(1, 2), E(3, 1), E(3, 2)>>, <<E(2, 1), E(3, 1), E(3, 2)>>}

LoopPipelines ==
    UNION {{[nodes |-> ns, edges |-> es] : es \in LoopEdgeLists(ns)} : ns \in LoopNodeLists}
    \cup {p \in Pipelines : Len(p.nodes) < Len(TopIds) /\ Len(p.edges) <= 1}

InitLoop ==
    /\ pdef \in LoopPipelines
    /\ frames = <<EmptyStore>>
    /\ cur = 1
    /\ events = <<>>
    /\ hist = <<>>
    /\ tasks = [t \in {} |-> 0]
    /\ running = "none"
    /\ main = [pc |-> "idle", levels |-> <<>>, idx |-> 0, nodes_executed |-> 0, err |-> NoErr,
               store |-> 0]
    /\ result = [returned |-> FALSE, success |-> FALSE, nodes_executed |-> 0,
                 results |-> 0, error |-> NoErr]
    /\ calls = <<>>
    /\ wloop = IdleWhile
    /\ composites = EmptyMap
    /\ saved = NoSave
    /\ bus = IdleBus
    /\ dm = IdleManager
    /\ pipelines = EmptyRepo
    /\ collected = NoCollect

SpecLoop == InitLoop /\ [][Next]_vars


\* ------------------------------------------------ a second call on the engine
\* execute_pipeline is called again on the same engine after the first call
\* has returned and its node tasks have ended; self.data_store is whatever
\* the first call left.
ReusePipelines == {p \in Pipelines : Len(p.nodes) < Len(TopIds) /\ Len(p.edges) <= 1}

\* the pipelines of the second call: two set_variable nodes
AgainPipelines ==
    {p \in ReusePipelines : \A i \in DOMAIN p.nodes : p.nodes[i].function_id = "set_variable"}

InitReuse ==
    /\ pdef \in ReusePipelines
    /\ frames = <<EmptyStore>>
    /\ cur = 1
    /\ events = <<>>
    /\ hist = <<>>
    /\ tasks = [t \in {} |-> 0]
    /\ running = "none"
    /\ main = [pc |-> "idle", levels |-> <<>>, idx |-> 0, nodes_executed |-> 0, err |-> NoErr,
               store |-> 0]
    /\ result = [returned |-> FALSE, success |-> FALSE, nodes_executed |-> 0,
                 results |-> 0, error |-> NoErr]
    /\ calls = <<>>
    /\ wloop = IdleWhile
    /\ composites = EmptyMap
    /\ saved = NoSave
    /\ bus = IdleBus
    /\ dm = IdleManager
    /\ pipelines = EmptyRepo
    /\ collected = NoCollect

\* the calls that have ended: each published PipelineCompleted or PipelineError
EndedCalls == {i \in DOMAIN events : events[i].type \in {"PipelineCompleted", "PipelineError"}}

ExecuteAgain(p) ==
    /\ main.pc = "returned"
    /\ running = "none"
    /\ \A t \in DOMAIN tasks : tasks[t].status \notin {"new", "susp", "run"}
    /\ Cardinality(EndedCalls) = 1
    /\ pdef' = p
    /\ hist' = <<>>
    /\ tasks' = [t \in {} |-> 0]
    /\ main' = [pc |-> "idle", levels |-> <<>>, idx |-> 0, nodes_executed |-> 0,
                err |-> NoErr, store |-> 0]
    /\ result' = [returned |-> FALSE, success |-> FALSE, nodes_executed |-> 0,
                  results |-> 0, error |-> NoErr]
    /\ UNCHANGED <<frames, cur, events, running, outsideEngine>>

NextReuse ==
    \/ Next
    \/ \E p \in AgainPipelines : ExecuteAgain(p)

SpecReuse == InitReuse /\ [][NextReuse]_vars


\* ------------------------------------------------- while-loop nodes at work
\* _execute_while_loop_node inside execute_pipeline: the condition is
\* collected again from self.data_store before every iteration.
WhileLoopNode(id, cfg) ==
    [id |-> id, type |-> "while_loop", plugin_id |-> "", device_instance |-> "",
     function_id |-> "", composite_id |-> "", config |-> cfg]

\* A feeds the condition of the while-loop C (cap MaxCount); B is the body
\* of C, or runs in the level before C, or is fed by A and runs in the level
\* of C; and the two-node pipelines with at most one edge
WhileNodeLists ==
    {<<FunctionNode(TopIds[1], "logic", "", "set_variable", [value |-> v]),
       NodeOfKind(TopIds[2], kb, MaxCount),
       WhileLoopNode(TopIds[3], [max_iterations |-> Str(MaxCount)])>> :
        v \in {"true", "false"}, kb \in {"set", "delay", "composite"}}

WhileEdgeLists(ns) ==
    LET p == [nodes |-> ns, edges |-> <<>>]
        cond == Edge(TopIds[1], "value", TopIds[3], "condition")
        body == Edge(TopIds[3], "loop_body", TopIds[2], InPin(FindNode(TopIds[2], p)))
        feed == Edge(TopIds[1], "value", TopIds[2], InPin(FindNode(TopIds[2], p)))
    IN  {<<>>, <<cond>>, <<body>>, <<cond, body>>, <<cond, feed>>}

WhileNodePipelines ==
    UNION {{[nodes |-> ns, edges |-> es] : es \in WhileEdgeLists(ns)} : ns \in WhileNodeLists}
    \cup {p \in Pipelines : Len(p.nodes) < Len(TopIds) /\ Len(p.edges) <= 1}

InitWhileNode ==
    /\ pdef \in WhileNodePipelines
    /\ frames = <<EmptyStore>>
    /\ cur = 1
    /\ events = <<>>
    /\ hist = <<>>
    /\ tasks = [t \in {} |-> 0]
    /\ running = "none"
    /\ main = [pc |-> "idle", levels |-> <<>>, idx |-> 0, nodes_executed |-> 0, err |-> NoErr,
               store |-> 0]
    /\ result = [returned |-> FALSE, success |-> FALSE, nodes_executed |-> 0,
                 results |-> 0, error |-> NoErr]
    /\ calls = <<>>
    /\ wloop = IdleWhile
    /\ composites = EmptyMap
    /\ saved = NoSave
    /\ bus = IdleBus
    /\ dm = IdleManager
    /\ pipelines = EmptyRepo
    /\ collected = NoCollect

\* lines 568-580: read the cap, find the body targets
ExecuteWhileLoopNode(t) ==
    /\ At(t, "node", "enter")
    /\ NodeAt(t).type = "while_loop"
    /\ LET st   == tasks[t].stack
           a    == Top(st)
           node == NodeAt(t)
           cap  == IF Has(node.config, "max_iterations")
                   THEN ToInt(node.config["max_iterations"]) ELSE max_iterations
       IN  Step(t, SetTop(st, [a EXCEPT !.kind = "while", !.pc = "test", !.i = 0, !.count = cap]),
                frames, cur, events,
                Append(hist, Hist("while", t, a.node, a.pl, a.depth, EmptyMap, cur)), "run", NoErr)

WhileOutputs(iteration) ==
    [loop_body |-> "false",
     index |-> IF iteration > 0 THEN Str(iteration - 1) ELSE "0",
     complete |-> "true", iterations_completed |-> Str(iteration)]

\* lines 584-614: the loop test, the condition collected from the current
\* store, the counters and the iteration's publish; lines 625-633 on exit
WhileLoopTest(t) ==
    /\ At(t, "while", "test")
    /\ LET st     == tasks[t].stack
           a      == Top(st)
           inputs == CollectInputs(NodeAt(t), Pipe(a.pl), frames[cur])
           condition == IF Has(inputs, "condition") THEN ConditionHolds(inputs["condition"])
                        ELSE TRUE
           tested == Append(hist, Hist("test", t, a.node, a.pl, a.depth,
                                       [condition |-> IF condition THEN "true" ELSE "false"], cur))
       IN  IF a.i >= a.count
           THEN ReturnNode(t, st, frames, cur, events, hist, WhileOutputs(a.i))
           ELSE IF ~condition
           THEN ReturnNode(t, st, frames, cur, events, tested, WhileOutputs(a.i))
           ELSE Step(t, SetTop(st, [a EXCEPT !.pc = "body", !.q = LoopBodyNodes(a.node, Pipe(a.pl))]),
                     [frames EXCEPT ![cur] = Put(frames[cur], a.node,
                         [loop_body |-> "true", index |-> Str(a.i),
                          iteration |-> Str(a.i + 1)])],
                     cur,
                     Append(events, Event("NodeExecuting", a.node, a.i + 1, 0, "while_loop", EmptyMap)),
                     tested, "susp", NoErr)

\* lines 618-623: hand the next body target to _execute_loop_body, then count
WhileLoopBody(t) ==
    /\ At(t, "while", "body")
    /\ LET st == tasks[t].stack
           a  == Top(st)
       IN  IF a.q # <<>>
           THEN Step(t, Append(SetTop(st, [a EXCEPT !.q = Tail(a.q)]),
                               [Act("body", Head(a.q), a.pl, a.depth) EXCEPT !.pc = "bfs", !.q = <<Head(a.q)>>]),
                     frames, cur, events, hist, "run", NoErr)
           ELSE Step(t, SetTop(st, [a EXCEPT !.pc = "test", !.i = a.i + 1]),
                     frames, cur, events, hist, "run", NoErr)

NextWhileNode ==
    \/ Next
    \/ \E t \in DOMAIN tasks : ExecuteWhileLoopNode(t)
    \/ \E t \in DOMAIN tasks : WhileLoopTest(t)
    \/ \E t \in DOMAIN tasks : WhileLoopBody(t)

SpecWhileNode == InitWhileNode /\ [][NextWhileNode]_vars


\* ================================================================== claims
\* helpers for stating the claims (independent of the engine's own analysis)
Arcs(p) == {<<p.edges[i].source, p.edges[i].target>> : i \in DOMAIN p.edges}

RECURSIVE Closure(_)
Closure(R) ==
    LET step == R \cup {<<pr[1][1], pr[2][2]>> : pr \in {qr \in R \X R : qr[1][2] = qr[2][1]}}
    IN  IF step = R THEN R ELSE Closure(step)

\* some node reaches itself along one or more arcs
HasDirectedCycle(p) == \E a \in Closure(Arcs(p)) : a[1] = a[2]

Returned == result.returned

Succeeded == result.returned /\ result.success

\* C1: execute_pipeline fails with CircularDependency exactly when the
\* pipeline's graph has a directed cycle (self-loops included)
C1_CircularIffCycle ==
    Returned =>
        ((~result.success /\ result.error.type = "CircularDependencyError")
            <=> HasDirectedCycle(pdef))

\* a cyclic pipeline was rejected, and an acyclic one holding a composite
\* with a cyclic subgraph failed with another error
C1_Witness ==
    /\ Returned
    /\ ~HasDirectedCycle(pdef)
    /\ ~result.success
    /\ result.error.type = "NodeExecutionError"
    /\ \E i \in DOMAIN pdef.nodes : pdef.nodes[i].composite_id = "CC"


\* position of a node in the level lists execute_pipeline computed
LevelIndex(n) ==
    IF \E k \in DOMAIN main.levels : n \in Range(main.levels[k])
    THEN CHOOSE k \in DOMAIN main.levels : n \in Range(main.levels[k]) ELSE 0

\* C5: in an acyclic pipeline every edge goes from a lower level to a
\* strictly higher one
C5_EdgesGoUpLevels ==
    main.levels # <<>> =>
        \A i \in DOMAIN pdef.edges :
            /\ LevelIndex(pdef.edges[i].source) > 0
            /\ LevelIndex(pdef.edges[i].source) < LevelIndex(pdef.edges[i].target)

\* levels were computed for a pipeline with a fork or a chain of edges
C5_Witness ==
    /\ Len(main.levels) >= 2
    /\ Len(pdef.edges) >= 2
    /\ \E i \in DOMAIN pdef.edges : LevelIndex(pdef.edges[i].target) = Len(main.levels)


\* records of hist where a top-level node read its inputs
IsRead(h, node_id) ==
    h.op \in {"call", "enter", "loop"} /\ h.pl = "top" /\ h.node = node_id

\* the latest result a top-level node had stored before position j (0: none)
LastStoreBefore(node_id, j) ==
    LET S == {i \in 1..(j - 1) : hist[i].op = "store" /\ hist[i].pl = "top" /\ hist[i].node = node_id}
    IN  IF S = {} THEN 0 ELSE CHOOSE i \in S : \A k \in S : k <= i

\* an edge no later edge of the list overrides on its target pin
WinningEdge(k) ==
    \A m \in DOMAIN pdef.edges :
        (m > k /\ pdef.edges[m].target = pdef.edges[k].target
               /\ pdef.edges[m].target_handle = pdef.edges[k].target_handle) => FALSE

\* C2: after a successful execution, for every edge u.h1 -> v.h2 (the one
\* listed last, for a pin fed by several edges) v observed as input h2 the
\* value of output h1 that u produced
C2_DataflowComplete ==
    Succeeded =>
        \A k \in DOMAIN pdef.edges : WinningEdge(k) =>
            \A j \in DOMAIN hist : IsRead(hist[j], pdef.edges[k].target) =>
                LET e == pdef.edges[k]
                    i == LastStoreBefore(e.source, j)
                IN  (i > 0 /\ Has(hist[i].data, e.source_handle)) =>
                        /\ Has(hist[j].data, e.target_handle)
                        /\ hist[j].data[e.target_handle] = hist[i].data[e.source_handle]


IsNodeEvent(e) == e.type \in {"NodeExecuting", "NodeCompleted"}

IsTerminalEvent(e) == e.type \in {"PipelineCompleted", "PipelineError"}

\* C3: on an acyclic pipeline PipelineStarted comes first; within a level
\* every NodeExecuting precedes every NodeCompleted; the events of level k
\* precede those of level k+1; exactly one PipelineCompleted/PipelineError
\* is published and nothing follows it
C3_EventOrder ==
    ~HasDirectedCycle(pdef) =>
        /\ events # <<>> => events[1].type = "PipelineStarted"
        /\ \A i, j \in DOMAIN events : i < j =>
               /\ ~IsTerminalEvent(events[i])
               /\ events[j].type # "PipelineStarted"
               /\ (IsNodeEvent(events[i]) /\ IsNodeEvent(events[j])) =>
                      /\ LevelIndex(events[i].node_id) <= LevelIndex(events[j].node_id)
                      /\ (/\ LevelIndex(events[i].node_id) = LevelIndex(events[j].node_id)
                          /\ events[i].type = "NodeCompleted") => events[j].type = "NodeCompleted"
        /\ Returned => \E i \in DOMAIN events : IsTerminalEvent(events[i])


TopNodeIds == {pdef.nodes[i].id : i \in DOMAIN pdef.nodes}

\* records of hist made by the execution of a top-level node
IsTopRecord(h) == h.pl = "top" /\ h.op \in {"call", "enter", "loop", "store"}

\* C4: no node of level k+1 collects its inputs or invokes its function
\* until every node of level k has finished and stored its outputs in the
\* top-level frame
C4_LevelBarrier ==
    \A j \in DOMAIN hist :
        (hist[j].pl = "top" /\ hist[j].op \in {"call", "enter", "loop"}) =>
            \A u \in TopNodeIds :
                (LevelIndex(u) > 0 /\ LevelIndex(u) + 1 = LevelIndex(hist[j].node)) =>
                    \E i \in 1..(j - 1) :
                        /\ hist[i].op = "store"
                        /\ hist[i].pl = "top"
                        /\ hist[i].node = u
                        /\ hist[i].frame = main.store

\* position in hist of the first exception that left a node task (0: none)
FirstRaise ==
    LET R == {i \in DOMAIN hist : hist[i].op = "raise"}
    IN  IF R = {} THEN 0 ELSE CHOOSE i \in R : \A k \in R : i <= k

\* nodes of the levels after the failing one that had not started when
\* the first node failed
Unstarted ==
    {n \in TopNodeIds :
        /\ LevelIndex(n) > main.idx
        /\ \A i \in 1..(FirstRaise - 1) : ~(IsTopRecord(hist[i]) /\ hist[i].node = n)}

\* C6: once a node of level k has failed, no unstarted node of a later
\* level is executed, no node event is published for it, and the result
\* is a failure carrying the first error
C6_AbortOnFailure ==
    FirstRaise > 0 =>
        /\ \A n \in Unstarted :
               /\ \A i \in DOMAIN hist : ~(IsTopRecord(hist[i]) /\ hist[i].node = n)
               /\ \A i \in DOMAIN events : ~(IsNodeEvent(events[i]) /\ events[i].node_id = n)
        /\ Returned => (~result.success /\ result.error = main.err /\ main.err # NoErr)

\* C7: whenever the function a function node invokes raises (on the logic,
\* stateless-plugin or device path) the execution ends as a failure with a
\* PipelineError event and never as a success with PipelineCompleted
C7_FaultFailsPipeline ==
    (Returned /\ \E i \in DOMAIN hist : hist[i].op = "fault") =>
        /\ ~result.success
        /\ \E i \in DOMAIN events : events[i].type = "PipelineError"
        /\ \A i \in DOMAIN events : events[i].type # "PipelineCompleted"


\* the latest result stored for a top-level node (0: none)
LastStore(node_id) == LastStoreBefore(node_id, Len(hist) + 1)

\* C8: after a successful execution nodes_executed is the number of nodes
\* and results holds, under every top-level node id, the outputs that node
\* produced
C8_ResultsComplete ==
    Succeeded =>
        /\ result.nodes_executed = Len(pdef.nodes)
        /\ \A n \in TopNodeIds :
               /\ Has(frames[result.results], n)
               /\ LastStore(n) > 0
               /\ frames[result.results][n] = hist[LastStore(n)].data

\* C9: after the composites have returned, neither the top-level frame nor
\* the returned results hold an entry of an internal node or an __input__
\* bucket; a composite adds only its own id, mapped to its declared outputs
C9_CompositeIsolation ==
    Succeeded =>
        /\ DOMAIN frames[main.store] \subseteq TopNodeIds
        /\ DOMAIN frames[result.results] \subseteq TopNodeIds
        /\ \A j \in DOMAIN hist : hist[j].op = "exit" =>
               /\ hist[j + 1].op = "store"
               /\ hist[j + 1].node = hist[j].node
               /\ hist[j + 1].data = hist[j].data

\* composite entries of task t still open at position j of hist
OpenEnters(t, j) ==
    {i \in 1..(j - 1) :
        /\ hist[i].op = "enter" /\ hist[i].task = t
        /\ \A k \in (i + 1)..(j - 1) :
               ~(/\ hist[k].op = "exit" /\ hist[k].task = t
                 /\ hist[k].node = hist[i].node /\ hist[k].depth = hist[i].depth)}

\* C10: a composite that exits, by success or by failure, leaves current
\* the store that was current when it started, so that once a level has
\* settled the current store is the top-level frame
C10_StackDiscipline ==
    /\ \A j \in DOMAIN hist :
           /\ hist[j].op = "exit" =>
                  \E i \in OpenEnters(hist[j].task, j) :
                      /\ hist[i].node = hist[j].node /\ hist[i].depth = hist[j].depth
                      /\ hist[j].frame = hist[i].prev
           /\ hist[j].op = "raise" =>
                  \A i \in OpenEnters(hist[j].task, j) :
                      (\A k \in OpenEnters(hist[j].task, j) : i <= k) => hist[j].frame = hist[i].prev
    /\ (main.pc = "level" \/ Succeeded) => cur = main.store


\* C11: when two execute_pipeline calls interleave, every node of a call
\* reads and writes only the store that call created, and the call returns
\* that store holding exactly the outputs of its own nodes
C11_CallsIsolated ==
    \A c \in CallIds :
        /\ \A j \in DOMAIN calls[c].log : calls[c].log[j].frame = calls[c].store
        /\ calls[c].result.returned =>
              /\ calls[c].result.results = calls[c].store
              /\ DOMAIN frames[calls[c].result.results]
                     = {calls[c].pdef.nodes[i].id : i \in DOMAIN calls[c].pdef.nodes}
              /\ \A j \in DOMAIN calls[c].log : calls[c].log[j].op = "store" =>
                     Has(frames[calls[c].result.results], calls[c].log[j].node)


\* records of hist left by a composite node the engine refused or failed
IsCompositeRaise(h) == h.op = "raise" /\ FindNode(h.node, Pipe(h.pl)).type = "composite"

\* C12: a composite node inside MAX_COMPOSITE_DEPTH (5) or more enclosing
\* composite nodes is never expanded; it fails with a NodeExecutionError
\* naming it, no node of its subgraph executes, and the pipeline fails
C12_DepthLimit ==
    /\ \A j \in DOMAIN hist :
           /\ hist[j].op = "enter" => hist[j].depth < MAX_COMPOSITE_DEPTH
           /\ hist[j].op \in {"call", "loop", "store"} => hist[j].depth <= MAX_COMPOSITE_DEPTH
           /\ (IsCompositeRaise(hist[j]) /\ hist[j].depth >= MAX_COMPOSITE_DEPTH) =>
                  hist[j].data = Err("NodeExecutionError", hist[j].node)
    /\ (Returned /\ \E j \in DOMAIN hist :
                        IsCompositeRaise(hist[j]) /\ hist[j].depth >= MAX_COMPOSITE_DEPTH)
           => ~result.success

\* the chain D1 .. D6 was executed down to its fifth print node, N6 was
\* refused and the pipeline returned
C12_Witness ==
    /\ Returned
    /\ \E j \in DOMAIN hist : hist[j].op = "raise" /\ hist[j].node = "N6"
    /\ \E j \in DOMAIN hist : hist[j].op = "store" /\ hist[j].node = "L5"


\* positions of hist where top-level node n began an execution
Executions(n) == {j \in DOMAIN hist : IsRead(hist[j], n)}

Min(a, b) == IF a <= b THEN a ELSE b

\* the count a for-loop execution asked for, from the inputs it collected
RequestedCount(h) == IF Has(h.data, "count") THEN IntOr1(h.data["count"]) ELSE 1

\* C13: in a successful execution a body node connected from the loop_body
\* handle of a for-loop with requested count c is executed exactly
\* min(c, MAX_LOOP_ITERATIONS) times
C13_BodyRunsCountTimes ==
    Succeeded =>
        \A i \in DOMAIN pdef.nodes :
            LET f == pdef.nodes[i].id
            IN  (pdef.nodes[i].type = "for_loop" /\ Cardinality(Executions(f)) = 1) =>
                    \A j \in Executions(f) :
                        RequestedCount(hist[j]) >= 0 =>
                            \A k \in DOMAIN LoopBodyNodes(f, pdef) :
                                Cardinality(Executions(LoopBodyNodes(f, pdef)[k]))
                                    = Min(RequestedCount(hist[j]), max_iterations)


\* the record with which the for-loop execution begun at hist[j] stored its
\* final outputs; 0 when that execution has not (or not yet) finished
LoopEnd(j) ==
    LET S == {k \in DOMAIN hist :
                 /\ k > j /\ hist[k].op = "store"
                 /\ hist[k].node = hist[j].node /\ hist[k].task = hist[j].task
                 /\ hist[k].depth = hist[j].depth /\ hist[k].pl = hist[j].pl}
    IN  IF S = {} THEN 0 ELSE CHOOSE k \in S : \A m \in S : k <= m

\* the per-iteration events the for-loop execution hist[j] .. hist[j2]
\* published: each is published in the step that starts an iteration, whose
\* "iter" record is the one that follows the records the event has seen
IterationEvents(j, j2) ==
    {e \in DOMAIN events :
        /\ events[e].type = "NodeExecuting" /\ events[e].node_id = hist[j].node
        /\ events[e].seen + 1 \in (j + 1)..(j2 - 1)
        /\ hist[events[e].seen + 1].op = "iter"
        /\ hist[events[e].seen + 1].task = hist[j].task
        /\ hist[events[e].seen + 1].depth = hist[j].depth}

\* hist[r] starts a body node of the loop execution begun at hist[j]
IsBodyStart(r, j) ==
    /\ hist[r].op \in {"call", "enter", "loop"}
    /\ hist[r].task = hist[j].task /\ hist[r].depth = hist[j].depth + 1

FinishedLoops == {j \in DOMAIN hist : hist[j].op = "loop" /\ LoopEnd(j) # 0}

\* C14: a for-loop execution that performs n iterations publishes exactly n
\* per-iteration NodeExecuting events for the loop node, numbered 1..n in
\* order, each carrying total_iterations = n and each published before the
\* body nodes of its iteration start; its final outputs are loop_body=false,
\* complete=true and iterations_completed = n
C14_ForLoopEvents ==
    \A j \in FinishedLoops :
        LET j2 == LoopEnd(j)
            E  == IterationEvents(j, j2)
            n  == Cardinality(E)
            B  == {r \in (j + 1)..(j2 - 1) : IsBodyStart(r, j)}
        IN  /\ \A e \in E :
                   LET k    == Cardinality({d \in E : d <= e})
                       upto == IF k = n THEN j2
                               ELSE (CHOOSE d \in E : Cardinality({c \in E : c <= d}) = k + 1)
                       body == LoopBodyNodes(hist[j].node, Pipe(hist[j].pl))
                   IN  /\ events[e].iteration = k
                       /\ events[e].total_iterations = n
                       /\ \A b \in DOMAIN body :
                              \E r \in B : /\ hist[r].node = body[b]
                                            /\ r > events[e].seen
                                            /\ r <= (IF k = n THEN j2 ELSE events[upto].seen)
            /\ \A r \in B : \E e \in E : events[e].seen < r
            /\ hist[j2].data["loop_body"] = "false"
            /\ hist[j2].data["complete"] = "true"
            /\ hist[j2].data["iterations_completed"] = Str(n)


\* C15: whatever its config and however long its condition stays true, one
\* execution of a while-loop node performs at most MAX_LOOP_ITERATIONS (1000,
\* the cap of line 490) iterations
C15_WhileCap == wloop.iteration <= max_iterations


\* the stored composites a stored composite contains a node of
RepoArcs ==
    UNION {{<<c, n.composite_id>> :
               n \in {m \in Range(CompositeRepo[c].nodes) : m.type = "composite"}} :
           c \in DOMAIN CompositeRepo}

\* the stored composites that reference themselves, directly or through
\* stored composites
SelfReferencing == {c \in DOMAIN CompositeRepo : <<c, c>> \in Closure(RepoArcs)}

IsSelfRefNode(n) == n.type = "composite" /\ n.composite_id \in SelfReferencing

HasSelfRef(p) == \E i \in DOMAIN p.nodes : IsSelfRefNode(p.nodes[i])

\* C16 (what every reached state shows): in a pipeline with a
\* self-referencing composite the nesting never exceeds
\* MAX_COMPOSITE_DEPTH, no execution of a self-referencing composite node
\* stores outputs, each ends with a NodeExecutionError on a composite node,
\* and the pipeline does not return success
C16_Bounded ==
    HasSelfRef(pdef) =>
        /\ \A j \in DOMAIN hist :
               /\ hist[j].depth <= MAX_COMPOSITE_DEPTH
               /\ IsSelfRefNode(FindNode(hist[j].node, Pipe(hist[j].pl))) =>
                      /\ hist[j].op # "store"
                      /\ hist[j].op = "raise" =>
                             /\ hist[j].data.type = "NodeExecutionError"
                             /\ \E c \in {"top"} \cup DOMAIN CompositeRepo :
                                    FindNode(hist[j].data.node, Pipe(c)).type = "composite"
        /\ Returned => ~result.success


StoreArcs(repo) ==
    UNION {{<<c, n.composite_id>> : n \in {m \in Range(repo[c]) : m.type = "composite"}} :
           c \in DOMAIN repo}

\* C17: create and update raise and leave the store unchanged for every
\* composite whose subgraph contains a composite node referring to the
\* composite itself, directly or through a chain of stored composites
C17_RejectsCircular ==
    (saved.op # "none" /\
     <<saved.id, saved.id>> \in Closure(StoreArcs(Put(saved.before, saved.id, saved.subgraph))))
        => (saved.raised /\ composites = saved.before)


EventsOfType(types) == {e \in DOMAIN events : events[e].type \in types}

\* C18: for a pipeline whose graph has a cycle no node is executed, no
\* PipelineStarted, NodeExecuting or NodeCompleted event is published,
\* exactly one PipelineError event is published and the result has
\* success=false
C18_CyclicRunsNothing ==
    HasDirectedCycle(pdef) =>
        /\ hist = <<>> /\ tasks = <<>>
        /\ EventsOfType({"PipelineStarted", "NodeExecuting", "NodeCompleted"}) = {}
        /\ Cardinality(EventsOfType({"PipelineError"})) <= 1
        /\ Returned => /\ ~result.success
                       /\ Cardinality(EventsOfType({"PipelineError"})) = 1

\* a pipeline with a two-node cycle has returned
C18_Witness ==
    /\ Returned
    /\ \E i, j \in DOMAIN pdef.edges :
           /\ pdef.edges[i].source # pdef.edges[i].target
           /\ pdef.edges[j].source = pdef.edges[i].target
           /\ pdef.edges[j].target = pdef.edges[i].source
    /\ EventsOfType({"PipelineError"}) # {}


PublishEnded == bus.pc \in {"returned", "raised"}

\* C19: publish returns only after every handler of the snapshot has
\* finished (returned or raised), plain and coroutine handlers alike
C19_PublishWaits ==
    PublishEnded => \A i \in DOMAIN bus.handlers : bus.status[i] \in {"done", "raised"}

\* publish has returned with a plain and a coroutine handler in the snapshot
C19_Witness ==
    /\ PublishEnded
    /\ \E i, j \in DOMAIN bus.handlers :
           bus.handlers[i].is_coroutine /\ ~bus.handlers[j].is_coroutine

\* C20: when handlers raise, every other handler of the event's type is
\* still invoked and runs to completion, publish returns normally, and the
\* execution that published goes on
C20_FaultsContained ==
    /\ bus.engine # "failed"
    /\ bus.pc # "raised"
    /\ bus.pc = "gather" => bus.engine = "awaiting"
    /\ (PublishEnded /\ \E i \in DOMAIN bus.status : bus.status[i] = "raised") =>
           /\ bus.pc = "returned"
           /\ \A j \in DOMAIN bus.handlers :
                  ~bus.handlers[j].raises => bus.status[j] = "done"

\* a handler raised, another one completed, and the publishing execution
\* went on
C20_Witness ==
    /\ bus.engine = "continued"
    /\ \E i, j \in DOMAIN bus.status : bus.status[i] = "raised" /\ bus.status[j] = "done"


\* ---------------------------------------------------------------- devices
\* the registry: the three tables and the devices they hold
Registry(d) ==
    <<d.device_instances, d.instance_plugins, d.function_classes, d.objs>>

CreateCalls(id) ==
    {i \in DOMAIN dm.calls : dm.calls[i].op = "create" /\ dm.calls[i].id = id}

Refused(c) == c.status = "raised" /\ c.error = "AlreadyExistsError"

\* at most one create call per id is not refused, only that one can return
\* the id, and the registered device is the one it made
C21_OneWinner ==
    \A id \in DeviceIds :
        LET winners == {i \in CreateCalls(id) : ~Refused(dm.calls[i])}
        IN  /\ Cardinality(winners) <= 1
            /\ \A i \in winners :
                   /\ id \in InstanceIds(dm)
                   /\ DeviceOf(dm, id) = dm.calls[i].obj
                   /\ dm.instance_plugins[id] = dm.calls[i].plugin
                   /\ dm.function_classes[id] = PluginFunctions[dm.calls[i].plugin]

\* a refused create call changes neither a table nor a device
C21_RefusedChangesNothing ==
    \A i \in DOMAIN dm'.calls :
        (~(i \in DOMAIN dm.calls) /\ Refused(dm'.calls[i]))
            => Registry(dm') = Registry(dm)

ConnectFailed(c) ==
    /\ c.op = "create" /\ c.auto_connect /\ ~Refused(c)
    /\ \/ c.status = "returned" /\ Has(c.results, c.id) /\ ~c.results[c.id]
       \/ c.status = "raised"

\* C22: when create_device_instance is called with auto_connect and the
\* device's connect fails, by returning false or by raising, the instance
\* stays in all three tables and its status is error with the message kept.
C22_FailedConnectIsError ==
    \A i \in DOMAIN dm.calls :
        ConnectFailed(dm.calls[i]) =>
            /\ dm.calls[i].id \in InstanceIds(dm)
            /\ Has(dm.instance_plugins, dm.calls[i].id)
            /\ Has(dm.function_classes, dm.calls[i].id)
            /\ dm.objs[dm.calls[i].obj].status = "error"
            /\ dm.objs[dm.calls[i].obj].error_message # "none"


\* the status changes the device life cycle allows
AllowedChange(t) ==
    \/ t.from = "disconnected" /\ t.to = "connecting"
    \/ t.from = "connecting" /\ t.to = "connected"
    \/ t.to = "error"
    \/ t.from = "error" /\ t.to = "disconnected" /\ t.via = "clear_error"
    \/ t.from = "connected" /\ t.to = "disconnected" /\ t.via = "disconnect"

\* C23: over any sequence of connect, disconnect, set_error, clear_error,
\* connect_all and disconnect_all, every status change of a device is
\* disconnected -> connecting, connecting -> connected, any -> error,
\* error -> disconnected by clear_error, or connected -> disconnected by
\* disconnect.
C23_StatusChanges == \A t \in dm.trans : AllowedChange(t)


\* C24: execute_function on an instance whose status is not connected never
\* runs the device operation: the call fails with DeviceFunctionError (and so
\* changes neither the device's state nor its status).
C24_NeedsConnected ==
    \A i \in DOMAIN dm.calls :
        (/\ dm.calls[i].op = "execute"
         /\ dm.calls[i].status_before # ""
         /\ dm.calls[i].status_before # "connected")
            => /\ dm.calls[i].status = "raised"
               /\ dm.calls[i].error = "DeviceFunctionError"


AllCalls ==
    {i \in DOMAIN dm.calls :
        dm.calls[i].op \in {"connect_all", "disconnect_all", "health_check_all"}}

\* C25: connect_all_devices, disconnect_all_devices and health_check_all
\* never raise, also when instances are created or removed while the call is
\* suspended on a device, and they return a boolean for every instance that
\* was registered when the call began (a call that was itself cancelled is
\* left aside).
C25_AllCallsReport ==
    \A i \in AllCalls :
        /\ dm.calls[i].status = "raised" => dm.calls[i].error = "CancelledError"
        /\ dm.calls[i].status = "returned"
              => dm.calls[i].began \subseteq DOMAIN dm.calls[i].results


\* ------------------------------------------------------------- repository
\* C26: after any sequence of save and delete calls, get(id) returns the
\* definition most recently saved under id if id was saved and not deleted
\* since, and None otherwise (so a save or delete of another id does not
\* change it).
C26_GetReturnsLatest ==
    \A id \in PipelineIds :
        Get(id) = IF Has(pipelines.latest, id) THEN pipelines.latest[id] ELSE "None"


\* ------------------------------------------------------------------ inputs
InputPins == {"value", "q"}

\* the values the edges into the pin carry whose source output is in the store
EdgeValues(pin) ==
    {collected.store[collected.edges[k].source][collected.edges[k].source_handle] :
        k \in {m \in DOMAIN collected.edges :
                 /\ collected.edges[m].target = collected.node
                 /\ collected.edges[m].target_handle = pin
                 /\ Has(collected.store, collected.edges[m].source)
                 /\ Has(collected.store[collected.edges[m].source],
                        collected.edges[m].source_handle)}}

InjectedHas(pin) ==
    /\ Has(collected.store, InputKey(collected.node))
    /\ Has(collected.store[InputKey(collected.node)], pin)

\* C27: the value collected for a pin is the value of an incoming edge on the
\* pin whose source output is in the store; without one, the value the
\* injected bucket has for the pin; without that, the static config value;
\* and the pin stays unset when none of the three has it. An edge whose
\* source bucket or output is missing leaves the lower value in place.
C27_InputPrecedence ==
    collected.pc = "done" =>
        \A pin \in InputPins :
            IF EdgeValues(pin) # {}
            THEN Has(collected.inputs, pin) /\ collected.inputs[pin] \in EdgeValues(pin)
            ELSE IF InjectedHas(pin)
            THEN /\ Has(collected.inputs, pin)
                 /\ collected.inputs[pin] = collected.store[InputKey(collected.node)][pin]
            ELSE IF Has(collected.config, pin)
            THEN Has(collected.inputs, pin) /\ collected.inputs[pin] = collected.config[pin]
            ELSE ~Has(collected.inputs, pin)

\* the pin has a config value, an injected value and a live edge, next to an
\* edge whose source bucket is missing; the edge's value was collected
C27_Witness ==
    /\ collected.pc = "done"
    /\ Has(collected.config, "value") /\ InjectedHas("value")
    /\ EdgeValues("value") # {}
    /\ \E k \in DOMAIN collected.edges :
          /\ collected.edges[k].target = collected.node
          /\ ~Has(collected.store, collected.edges[k].source)
    /\ collected.inputs["value"] \in EdgeValues("value")


\* ------------------------------------------------------------------ levels
\* the vertices of the pipeline's graph: its nodes and the ends of its edges
GraphNodes ==
    {pdef.nodes[i].id : i \in DOMAIN pdef.nodes}
    \cup {a[1] : a \in Arcs(pdef)} \cup {a[2] : a \in Arcs(pdef)}

LevelSet(k) == Range(main.levels[k])

Earlier(k) == UNION {LevelSet(j) : j \in 1..(k - 1)}

\* C28: for an acyclic graph the levels partition the vertices, no level is
\* empty, and level k is exactly the vertices outside the earlier levels
\* whose predecessors all lie in earlier levels.
C28_LevelsExact ==
    main.levels # <<>> =>
        /\ UNION {LevelSet(k) : k \in DOMAIN main.levels} = GraphNodes
        /\ \A k \in DOMAIN main.levels :
              /\ main.levels[k] # <<>>
              /\ Cardinality(LevelSet(k)) = Len(main.levels[k])
              /\ LevelSet(k) \cap Earlier(k) = {}
              /\ LevelSet(k) =
                    {n \in GraphNodes \ Earlier(k) :
                        \A a \in Arcs(pdef) : a[2] = n => a[1] \in Earlier(k)}

\* levels were computed with two vertices side by side in one level and a
\* later level behind them
C28_Witness ==
    /\ Len(main.levels) >= 2
    /\ \E k \in DOMAIN main.levels : Len(main.levels[k]) >= 2
    /\ Arcs(pdef) # {}


\* ---------------------------------------------------------------- siblings
\* a node task of the current level that has neither finished nor failed
Unsettled(t) == tasks[t].status \in {"new", "susp", "run"}

\* C29: execute_pipeline publishes PipelineError and returns only after
\* every node task of the failed level has settled, so that after the return
\* no node task of the execution is left to run, publish or store.
C29_SiblingsSettled ==
    (Returned \/ \E i \in DOMAIN events : events[i].type = "PipelineError")
        => \A t \in DOMAIN tasks : ~Unsettled(t)


\* ------------------------------------------------------------- node errors
\* C30: every failure raised while a node is executed, whatever the node's
\* type, also an unknown type or an id missing from the definition, leaves
\* _execute_node as a NodeExecutionError that carries the id of that node.
C30_NodeErrorsWrapped ==
    \A j \in DOMAIN hist :
        hist[j].op = "raise" =>
            /\ hist[j].data.type = "NodeExecutionError"
            /\ hist[j].data.node = hist[j].node


\* ------------------------------------------------------------- error event
\* C31: when the execution fails because node n raised a NodeExecutionError,
\* the PipelineError event carries node_id = n and error_type =
\* NodeExecutionError.
C31_ErrorEventNamesNode ==
    \A i \in DOMAIN events :
        (events[i].type = "PipelineError" /\ main.err.type = "NodeExecutionError")
            => /\ events[i].info = "NodeExecutionError"
               /\ events[i].node_id = main.err.node


\* --------------------------------------------------------- loop iterations
\* the for-loop executions on record
LoopRuns == {j \in DOMAIN hist : hist[j].op = "loop"}

\* where the records of the loop execution begun at hist[j] stop
LoopStop(j) == IF LoopEnd(j) # 0 THEN LoopEnd(j) ELSE Len(hist) + 1

\* the records that start an iteration of the loop execution begun at hist[j]
IterationStarts(j) ==
    {r \in (j + 1)..(LoopStop(j) - 1) :
        /\ hist[r].op = "iter" /\ hist[r].node = hist[j].node
        /\ hist[r].task = hist[j].task /\ hist[r].depth = hist[j].depth
        /\ hist[r].pl = hist[j].pl}

\* where the iteration started at hist[r] stops
IterationStop(j, r) ==
    LET later == {s \in IterationStarts(j) : s > r}
    IN  IF later = {} THEN LoopStop(j) ELSE CHOOSE s \in later : \A u \in later : s <= u

\* the executions of body nodes within the iteration started at hist[r]
BodyRuns(j, r) == {x \in (r + 1)..(IterationStop(j, r) - 1) : IsBodyStart(x, j)}

\* C32: within one iteration of a loop every node is executed at most once,
\* also a node that two or more body targets of the loop lead to.
C32_OncePerIteration ==
    \A j \in LoopRuns : \A r \in IterationStarts(j) :
        \A x, y \in BodyRuns(j, r) : hist[x].node = hist[y].node => x = y


\* C33: within one iteration of a loop, a body node v is executed only after
\* every predecessor u of v that is also executed in that iteration
C33_PredecessorsFirst ==
    \A j \in LoopRuns :
        hist[j].pl = "top" =>
            \A r \in IterationStarts(j) :
                \A x \in BodyRuns(j, r) :
                    \A k \in DOMAIN pdef.edges :
                        LET e == pdef.edges[k]
                        IN  (/\ e.target = hist[x].node /\ e.source # hist[x].node
                             /\ \E y \in BodyRuns(j, r) : hist[y].node = e.source)
                                => \E y \in BodyRuns(j, r) : y < x /\ hist[y].node = e.source


\* the handlers called so far, in call order
Invoked == [i \in DOMAIN bus.invoked |-> bus.invoked[i].handler]

\* C34: one publish of an event invokes exactly the handlers that were
\* subscribed to the event's concrete type when publish was called, each once
\* per subscription and with that event; subscribing and unsubscribing after
\* that, and the handlers of other event types, do not change it
C34_SnapshotHandlers ==
    /\ \A i \in DOMAIN bus.invoked : bus.invoked[i].event = bus.event
    /\ bus.pc = "gather" =>
           /\ Len(Invoked) <= Len(bus.at_publish[bus.event])
           /\ Invoked = SubSeq(bus.at_publish[bus.event], 1, Len(Invoked))
    /\ PublishEnded => Invoked = bus.at_publish[bus.event]

\* publish has returned after calling a handler, the event type's list
\* changed after publish was called, and another event type had a subscriber
C34_Witness ==
    /\ PublishEnded
    /\ Invoked # <<>>
    /\ bus.subscribers[bus.event] # bus.at_publish[bus.event]
    /\ \E t \in EventTypes \ {bus.event} : bus.at_publish[t] # <<>>


\* the device objects remove_device_instance dropped from the registry
Dropped ==
    {dm.calls[i].obj : i \in {k \in DOMAIN dm.calls :
                                  dm.calls[k].op = "remove" /\ dm.calls[k].status = "returned"}}

\* C35: a device object that remove_device_instance dropped from the
\* registry is not in status connected
C35_DroppedNotConnected ==
    \A o \in Dropped : dm.objs[o].status # "connected"


\* C37: device_instances, instance_plugins and function_classes hold the
\* same set of instance ids in every state
C37_TablesAgree ==
    /\ DOMAIN dm.instance_plugins = InstanceIds(dm)
    /\ DOMAIN dm.function_classes = InstanceIds(dm)

\* an instance was removed while the creation of another one was waiting
\* for its connect, and that other instance is registered
C37_Witness ==
    /\ InstanceIds(dm) # {}
    /\ \E i, k \in DOMAIN dm.calls :
           /\ i < k
           /\ dm.calls[i].op = "create" /\ dm.calls[i].status = "running"
           /\ dm.calls[k].op = "remove" /\ dm.calls[k].status = "returned"


\* C38: the results execute_pipeline returns hold only outputs produced
\* during that call; in particular a call that failed before it reset the
\* store (no node ran) returns empty results, whatever an earlier call on the
\* engine left
C38_FailedCallEmpty ==
    (Returned /\ main.store = 0) => frames[result.results] = EmptyStore


\* an edge into the pin whose source output is in the store
EdgeOverrides(pin) ==
    \E k \in DOMAIN collected.edges :
        /\ collected.edges[k].target = collected.node
        /\ collected.edges[k].target_handle = pin
        /\ Has(collected.store, collected.edges[k].source)
        /\ Has(collected.store[collected.edges[k].source], collected.edges[k].source_handle)

\* the mappings onto a pin of the collecting node whose external input is
\* present and which no later such mapping onto the same pin follows
EffectiveMappings ==
    LET On(i) == /\ Len(collected.mappings[i].maps_to) = 2
                 /\ collected.mappings[i].maps_to[1] = collected.node
                 /\ Has(collected.external, collected.mappings[i].name)
    IN  {i \in DOMAIN collected.mappings :
            /\ On(i)
            /\ \A j \in DOMAIN collected.mappings :
                   (j > i /\ On(j)) =>
                       collected.mappings[j].maps_to[2] # collected.mappings[i].maps_to[2]}

\* C36: for every input mapping of a composite whose external input is
\* present, the internal node's collected inputs hold the external value on
\* the mapped pin unless an internal edge overrides that pin
C36_MappedInputsArrive ==
    collected.pc = "done" =>
        \A i \in EffectiveMappings :
            LET pin == collected.mappings[i].maps_to[2]
            IN  ~EdgeOverrides(pin) =>
                    /\ Has(collected.inputs, pin)
                    /\ collected.inputs[pin] = collected.external[collected.mappings[i].name]


\* the executions of while-loop nodes and, for one of them, its end and the
\* evaluations of its condition
WhileRuns == {j \in DOMAIN hist : hist[j].op = "while"}

WhileTests(j) ==
    {r \in (j + 1)..(LoopStop(j) - 1) :
        /\ hist[r].op = "test" /\ hist[r].node = hist[j].node
        /\ hist[r].task = hist[j].task /\ hist[r].depth = hist[j].depth
        /\ hist[r].pl = hist[j].pl}

\* C39: in an acyclic pipeline whose nodes do not fail, the condition of one
\* execution of a while-loop node evaluates to the same value every time, and
\* the execution ends with iterations_completed 0 or the cap
C39_ConditionConstant ==
    (\A i \in DOMAIN hist : hist[i].op # "raise") =>
        \A j \in WhileRuns :
            /\ \A r1, r2 \in WhileTests(j) : hist[r1].data = hist[r2].data
            /\ LoopEnd(j) # 0 =>
                   hist[LoopEnd(j)].data["iterations_completed"]
                       \in {"0", FindNode(hist[j].node, pdef).config["max_iterations"]}


\* hist[j] is left by a stored composite the engine refused to expand: only
\* the depth check refuses a composite whose definition is in the store
DepthRejected(j) ==
    /\ IsCompositeRaise(hist[j])
    /\ FindNode(hist[j].node, Pipe(hist[j].pl)).composite_id \in DOMAIN CompositeRepo
    /\ ~(/\ j > 1 /\ hist[j - 1].op = "enter" /\ hist[j - 1].task = hist[j].task
          /\ hist[j - 1].node = hist[j].node /\ hist[j - 1].depth = hist[j].depth
          /\ hist[j - 1].pl = hist[j].pl)

\* C40: a composite node that is rejected for nesting depth is enclosed by
\* at least MAX_COMPOSITE_DEPTH composite nodes, whatever loop bodies
\* enclose it
C40_RejectedOnlyWhenDeep ==
    \A j \in DOMAIN hist :
        DepthRejected(j) =>
            Cardinality(OpenEnters(hist[j].task, j)) >= MAX_COMPOSITE_DEPTH

====
